---- MODULE Spec2Model ----
(***************************************************************************)
(* A model of guillotina's PostgreSQL storage engine                       *)
(* (guillotina/db/storages/pg.py): the object table under read-committed   *)
(* transactions, the optimistic tid-guarded write protocol of store, the   *)
(* two-phase deletion (reparent to the trash row, physical DELETE by the   *)
(* PGVacuum task), and the recovery of the connection pool.                *)
(*                                                                         *)
(* The database is modelled as PostgreSQL behaves under READ COMMITTED:    *)
(* each backend transaction holds its uncommitted row versions, a write    *)
(* to a row (or to a unique key) that another open transaction has written *)
(* waits until that transaction ends, constraints are checked when the     *)
(* statement runs, and a wait cycle is broken by a deadlock error.         *)
(* Columns no modelled statement reads (state_size, part, resource, otid,  *)
(* json) are left out of the rows.                                         *)
(***************************************************************************)
EXTENDS Integers, Sequences, FiniteSets, TLC

\* ------------------------------------------------------------------ bounds

\* The tid sequence is not advanced past MaxTid: at most MaxTid write tids.
MaxTid == 2

\* The clock stops counting MaxTicks ticks (of TickMs each) after a pool init.
MaxTicks == 3

\* At most MaxConnLoss sessions are broken by the environment in one run.
MaxConnLoss == 1

\* A transaction deletes at most MaxDeletes objects.
MaxDeletes == 1

\* ------------------------------------------------------------ the universe

NULL == "NULL"

\* guillotina.db.TRASHED_ID, the reserved oid of the trash row
TRASHED_ID == "TRASH"

\* the oids: a container P and two objects A and B
OIDs == {"P", "A", "B"}

\* the oids the callers store
StoreOids == {"A", "B"}

AllOids == OIDs \cup {TRASHED_ID}

\* the transaction handles (requests) multiplexed over the pool
Txns == {"t1", "t2"}

NoRow == [absent |-> TRUE]

NoWrite == [nowrite |-> TRUE]

\* BAD_CONNECTION_RESTART_DELAY, in milliseconds
BAD_CONNECTION_RESTART_DELAY == 250

\* one tick of the model's clock, in milliseconds
TickMs == 125

VARIABLES
    engine,             \* "new" before PostgresqlStorage.initialize, then "ready"
    schema,             \* the database: "undefined" (no tables), "legacy"
                        \* (tables, no unique constraint), "current" (with it)
    supports_unique,    \* PostgresqlStorage._supports_unique_constraints
    objects,            \* the committed rows of the objects table, by zoid
    tid_sequence,       \* the sequence: [last_value, is_called]
    uncommitted,        \* per transaction: its uncommitted row versions
    pc,                 \* per transaction handle: where its caller is
    txn_tid,            \* txn._tid
    req,                \* per transaction: the statement waiting for a lock
    lastOp,             \* per transaction: what its last engine call did
    hooks,              \* per transaction: the after-commit hooks (oids)
    hookLog,            \* per transaction: outcome of its last hook run
    txn_deleted,        \* txn.deleted, the oids the transaction holds deleted
    queue,              \* PGVacuum._queue, the oids waiting
    unfinished,         \* the queue's count of unfinished tasks (join waits on 0)
    closed,             \* PGVacuum._closed
    active,             \* the oid being vacuumed, or NULL (PGVacuum._active)
    vpc,                \* where the vacuum task is
    fpc,                \* where PostgresqlStorage.finalize is
    delCommitted,       \* history: oids whose delete() has committed
    joinWaited,         \* history: queue.join() had to wait in finalize
    sinceInit,          \* ms since _connection_initialized_on (capped)
    poolGen,            \* how many times the pool was (re)created
    stmtGen,            \* the pool generation the TID statements are prepared on
    connOk,             \* per transaction: its session is usable
    readConnOk,         \* the shared read session is usable
    connLost,           \* how many sessions the environment has broken
    storage_lock,       \* PostgresqlStorage._lock: its holder, or NULL
    pool,               \* PostgresqlStorage._pool: what it was created with
    connection_options, \* PostgresqlStorage._connection_options
    tidRet,             \* the last value a TID call returned, and those before
    startCall,          \* per transaction: the start_transaction call under way
    initializer,        \* per storage object: where its initialize stands
    blobs,              \* committed rows of the blobs table
    ublobs,             \* per transaction: chunk rows inserted, uncommitted
    bdel,               \* per transaction: chunk rows deleted, uncommitted
    txn_lock,           \* per transaction: txn._lock, its holder or NULL
    inflight,           \* per transaction: the queries awaited on its session
    readUse,            \* who is awaiting an operation of the read session
    replacing,          \* the pool is closed and its successor not yet made
    conflicts,          \* per transaction: its last get_conflicts call
    vconn,              \* conn of the vacuum(oid) call under way
    vlast,              \* history: how the last vacuum(oid) call went
    wcall               \* per transaction and caller: its write_blob_chunk call

dbVars == <<schema, objects, tid_sequence, uncommitted>>
txnVars == <<pc, txn_tid, req, lastOp, hooks, hookLog, txn_deleted>>
vacVars == <<queue, unfinished, closed, active, vpc, fpc, delCommitted,
             joinWaited>>
poolVars == <<engine, supports_unique, sinceInit, poolGen, stmtGen, connOk,
              readConnOk, connLost>>
recVars == <<storage_lock, pool, connection_options>>
tidVars == <<tidRet>>
startVars == <<startCall>>
initVars == <<initializer>>
blobVars == <<blobs, ublobs, bdel>>
lockVars == <<txn_lock, inflight>>
sessVars == <<readUse, replacing, conflicts>>
vacErrVars == <<vconn, vlast>>
stubVars == <<wcall>>
auxVars == <<recVars, tidVars, startVars, initVars, blobVars, lockVars, sessVars, vacErrVars, stubVars>>
vars == <<dbVars, txnVars, vacVars, poolVars, auxVars>>

\* ------------------------------------------------------------------- rows

\* the row CREATE_TRASH inserts
TrashRow == [tid |-> 0, parent_id |-> NULL, id |-> NULL, of |-> NULL,
             type |-> "TRASH_REF", state |-> {}]

\* the rows an existing database holds when the engine starts: the trash
\* row, a container P and its child A named "a", written before the first
\* tid of this run (state: the tid of the transaction that serialized it)
ExistingRows == [o \in AllOids |->
    IF o = TRASHED_ID THEN TrashRow
    ELSE IF o = "P" THEN [tid |-> 0, parent_id |-> NULL, id |-> NULL,
                          of |-> NULL, type |-> "X", state |-> {0}]
    ELSE IF o = "A" THEN [tid |-> 0, parent_id |-> "P", id |-> "a",
                          of |-> NULL, type |-> "X", state |-> {0}]
    ELSE [absent |-> TRUE]]

\* what the caller's writer carries for an object (writer.parent_id, id, of,
\* type): a child of P named "a", an unnamed child of P, an object outside
\* any container
Writers == {[parent_id |-> "P", id |-> "a", of |-> NULL, type |-> "X"],
            [parent_id |-> "P", id |-> NULL, of |-> NULL, type |-> "X"],
            [parent_id |-> NULL, id |-> NULL, of |-> NULL, type |-> "X"]}

\* the prior serials a caller may pass (obj._p_serial): {} is None, {n} is n
Serials == {{}} \cup {{n} : n \in 0 .. MaxTid}

NoOp == [op |-> "none"]

NoReq == [op |-> "none"]

IsRow(r) == r # NoRow /\ r # NoWrite

\* the (parent_id, id) key of a row as the unique index holds it: {<<p, i>>},
\* or {} when a column is null and the index ignores the row
Key(r) == IF IsRow(r) /\ r.parent_id # NULL /\ r.id # NULL
          THEN {<<r.parent_id, r.id>>} ELSE {}

\* the version of row o that a statement of transaction t sees
Visible(t, o) == IF uncommitted[t][o] # NoWrite THEN uncommitted[t][o]
                 ELSE objects[o]

\* the database has the constraint <objects>_parent_id_id_key
HasConstraint == schema = "current"

\* ------------------------------------------------- the database's statements

\* A statement's outcome: the error the backend raises ("none" when it ran),
\* the count it returns, and the row version it leaves for (t, o).
Outcome(err, count, row) == [err |-> err, count |-> count, row |-> row]

\* another open transaction holds an uncommitted version of row o
Writers_of(t, o) == {u \in Txns \ {t} : uncommitted[u][o] # NoWrite}

\* The unique index on (parent_id, id): transactions whose uncommitted work
\* decides whether key k is free for row o (an uncommitted row carrying k, or
\* an uncommitted change of a committed row carrying k).
UniqueWaits(t, o, k) ==
    IF k = {} \/ ~HasConstraint THEN {}
    ELSE {u \in Txns \ {t} : \E o2 \in AllOids \ {o} :
            /\ uncommitted[u][o2] # NoWrite
            /\ (Key(uncommitted[u][o2]) = k \/ Key(objects[o2]) = k)}

\* the check of a constraint that covers no row
UniqueViolatedMutant(t, o, new) == FALSE

\* UniqueViolationError: another row that t sees carries the key of new
\* (objects_parent_id_id_key UNIQUE (parent_id, id), lines 393-395)
UniqueViolated(t, o, new) ==
    /\ HasConstraint
    /\ Key(new) # {}
    /\ \E o2 \in AllOids \ {o} : Key(Visible(t, o2)) = Key(new)

\* ForeignKeyViolationError: parent_id or of names no row that t sees
\* (REFERENCES objects ON DELETE CASCADE, lines 364 and 366)
ForeignKeyViolated(t, o, new) ==
    \E ref \in {new.parent_id, new.of} \ {NULL} :
        ref # o /\ ~IsRow(Visible(t, ref))

\* the new version of row o is written, its constraints checked: the unique
\* index when the tuple is inserted, the foreign keys at the statement's end
CheckedWrite(t, o, new) ==
    IF UniqueViolated(t, o, new)
    THEN Outcome("UniqueViolationError", 0, NoWrite)
    ELSE IF ForeignKeyViolated(t, o, new)
         THEN Outcome("ForeignKeyViolationError", 0, NoWrite)
         ELSE Outcome("none", 1, new)

\* UPDATE ... WHERE zoid = $1 AND tid = $7 (the otid): the rows it matches
UpdateMatchesMutant(t, o, otid) == IsRow(Visible(t, o))

UpdateMatches(t, o, otid) ==
    IsRow(Visible(t, o)) /\ Visible(t, o).tid \in otid

\* the registered statement UPDATE, run by transaction t
UPDATE(t, o, otid, new) ==
    IF UpdateMatches(t, o, otid) THEN CheckedWrite(t, o, new)
    ELSE Outcome("none", 0, NoWrite)

\* the registered statement NAIVE_UPSERT: INSERT ... ON CONFLICT (zoid)
\* DO UPDATE, with no condition on the row's tid
NAIVE_UPSERT(t, o, otid, new) == CheckedWrite(t, o, new)

\* the registered statement TRASH_PARENT_ID
TRASH_PARENT_ID(t, o) ==
    IF IsRow(Visible(t, o))
    THEN CheckedWrite(t, o, [Visible(t, o) EXCEPT !.parent_id = TRASHED_ID])
    ELSE Outcome("none", 0, NoWrite)

\* A request: the statement a call runs and its parameters.
StoreReq(o, new_marker, old_serial, w) ==
    [op |-> "store", oid |-> o, otid |-> old_serial, w |-> w,
     update |-> (~new_marker /\ old_serial # {})]

DeleteReq(o) == [op |-> "delete", oid |-> o]

\* the row version a store writes: lines 630-644
NewRow(t, r) == [tid |-> txn_tid[t], parent_id |-> r.w.parent_id,
                 id |-> r.w.id, of |-> r.w.of, type |-> r.w.type,
                 state |-> {txn_tid[t]}]

\* the statement of request r, run by t when nothing makes it wait
Run(t, r) ==
    IF r.op = "delete" THEN TRASH_PARENT_ID(t, r.oid)
    ELSE IF r.update THEN UPDATE(t, r.oid, r.otid, NewRow(t, r))
         ELSE NAIVE_UPSERT(t, r.oid, r.otid, NewRow(t, r))

\* whether request r of t would write a row version, were no one in its way
WouldWrite(t, r) ==
    IF r.op = "store" /\ ~r.update THEN TRUE
    ELSE IF r.op = "store" THEN UpdateMatches(t, r.oid, r.otid)
         ELSE IsRow(Visible(t, r.oid))

\* the key request r would give its row
ReqKey(t, r) ==
    IF r.op = "store" THEN Key(NewRow(t, r))
    ELSE IF IsRow(Visible(t, r.oid)) /\ Visible(t, r.oid).id # NULL
         THEN {<<TRASHED_ID, Visible(t, r.oid).id>>} ELSE {}

\* the transactions request r of t waits for: the holders of the row's lock
\* (an uncommitted insert of another transaction is seen only by an INSERT),
\* then those the unique index waits for
Blockers(t, r) ==
    LET rowWait == IF WouldWrite(t, r)
                      /\ (IsRow(objects[r.oid]) \/ (r.op = "store" /\ ~r.update))
                   THEN Writers_of(t, r.oid) ELSE {}
    IN IF rowWait # {} THEN rowWait
       ELSE IF WouldWrite(t, r) THEN UniqueWaits(t, r.oid, ReqKey(t, r))
            ELSE {}

\* ------------------------------------------------------------------ blobs

\* at most this many chunk rows are written
MaxBlobRows == 2

MaxChunkIndex == 0

Bids == {"b1", "b2"}

\* the oids blobs are written for: A, a row of the existing database, and B
BlobOids == StoreOids

ChunkIndexes == 0 .. MaxChunkIndex

ChunkData == {"x", "y"}

\* a row of the blobs table (INSERT_BLOB_CHUNK: bid, zoid, chunk_index, data)
ChunkRow(bid, oid, index, data) ==
    [bid |-> bid, zoid |-> oid, chunk_index |-> index, data |-> data]

\* the stub row write_blob_chunk inserts: tid -1, type 'stub'
StubRow == [tid |-> -1, parent_id |-> NULL, id |-> NULL, of |-> NULL,
            type |-> "stub", state |-> {}]

\* a transaction that does not see its own chunk rows
VisibleBlobsMutant(t) == blobs

\* the chunk rows transaction t sees
VisibleBlobs(t) == (blobs \ bdel[t]) \cup ublobs[t]

\* primary key (bid, zoid, chunk_index)
SameChunkKey(r, q) ==
    r.bid = q.bid /\ r.zoid = q.zoid /\ r.chunk_index = q.chunk_index

\* the chunk rows written and not rolled back
AllChunkRows == blobs \cup UNION {ublobs[t] : t \in Txns}

\* a blobs table whose rows do not go with the object rows
BlobsOfMutant(S) == {}

\* the blobs table's zoid REFERENCES objects ON DELETE CASCADE: the rows
\* that go with the object rows S
BlobsOf(S) == {r \in blobs : r.zoid \in S}

\* rows of the blobs table for objects S that transaction t has written or
\* deleted and not committed
BlobLocks(t, S) == {r \in ublobs[t] \cup bdel[t] : r.zoid \in S}

\* the rows that reference a row of S through parent_id or of
Refs(S) == {o \in AllOids : IsRow(objects[o]) /\
                (objects[o].parent_id \in S \/ objects[o].of \in S)}

\* the rows DELETE removes with S: ON DELETE CASCADE, transitively
RECURSIVE Cascade(_)
Cascade(S) == IF Refs(S) \subseteq S THEN S ELSE Cascade(S \cup Refs(S))

\* the open transactions DELETE_OBJECT of o waits for: those that hold an
\* uncommitted version of a row it removes, or of a row referencing one
DeleteWaits(o) ==
    IF ~IsRow(objects[o]) THEN {}
    ELSE {t \in Txns : \E o2 \in AllOids :
            /\ IsRow(uncommitted[t][o2])
            /\ \/ o2 \in Cascade({o})
               \/ uncommitted[t][o2].parent_id \in Cascade({o})
               \/ uncommitted[t][o2].of \in Cascade({o})}
         \cup {t \in Txns : BlobLocks(t, Cascade({o})) # {}}

\* those of them that hold the lock of row o itself: an uncommitted version
\* of o, or of a row that references o
DeleteWaitsAtRow(o) ==
    {t \in Txns : \E o2 \in AllOids :
        /\ IsRow(uncommitted[t][o2])
        /\ (o2 = o \/ uncommitted[t][o2].parent_id = o
                    \/ uncommitted[t][o2].of = o)}
    \cup {t \in Txns : \E r \in ublobs[t] : r.zoid = o}

\* The row the vacuum's DELETE has removed while the statement, not yet
\* committed, waits for the rows the cascade reaches.
VacuumHolds == IF vpc = "deleting" THEN {active} ELSE {}

\* request r of t waits for the vacuum's DELETE: it writes the row the
\* DELETE holds, or writes a row that references it (the foreign key's lock)
VacuumBlocks(t, r) ==
    /\ WouldWrite(t, r)
    /\ \/ r.oid \in VacuumHolds
       \/ r.op = "store" /\ {r.w.parent_id, r.w.of} \cap VacuumHolds # {}

\* request r of t has to wait
Blocked(t, r) == Blockers(t, r) # {} \/ VacuumBlocks(t, r)

\* --------------------------------------------------------------- the start

\* A fresh sequence: last_value 1, not yet called (CREATE SEQUENCE, line 390).
FreshSequence == [last_value |-> 1, is_called |-> FALSE]

NoRows == [o \in AllOids |-> NoRow]

NoWrites == [o \in AllOids |-> NoWrite]

\* no TID call made yet
NoTid == [op |-> "none", val |-> 0, prev |-> 0, seq |-> FreshSequence]

\* storage objects of separate processes that initialize on the same database
Initializers == {"i1", "i2", "i3"}

\* no start_transaction call made
NoCall == [retries |-> 0, attempts |-> 0, closes |-> 0, opens |-> 0,
           out |-> "none"]

\* no write_blob_chunk call made
NoChunkCall == [at |-> "none", err |-> "none"]

\* no vacuum(oid) call made
NoVacuum == [oid |-> NULL, failed |-> {}, errors |-> {}, logged |-> 0]

\* no get_conflicts call made
NoConflicts == [called |-> FALSE]

\* _pool before get_pool has created one
NoPool == [nopool |-> TRUE]

\* the keyword arguments a caller may give to initialize (connection options)
ConnectionOptions == {{}, {"ssl"}}

\* asyncpg.create_pool(dsn=self._dsn, max_size=self._pool_size, min_size=2,
\* connection_class=..., **kw): the pool and what it was created with
CreatePool(kw) == [dsn |-> "_dsn", max_size |-> "_pool_size", min_size |-> 2,
                   connection_class |-> "pg_connection_class", options |-> kw]

\* The storage object after __init__ (lines 397-417), before initialize, and
\* the database it is pointed at: without tables, with the tables of an older
\* release (no unique constraint), or with the current tables.
Init ==
    /\ engine = "new"
    /\ schema \in {"undefined", "legacy", "current"}
    /\ supports_unique = FALSE
    /\ objects = IF schema = "undefined" THEN NoRows ELSE ExistingRows
    /\ tid_sequence = FreshSequence
    /\ uncommitted = [t \in Txns |-> NoWrites]
    /\ pc = [t \in Txns |-> "idle"]
    /\ txn_tid = [t \in Txns |-> 0]
    /\ req = [t \in Txns |-> NoReq]
    /\ lastOp = [t \in Txns |-> NoOp]
    /\ hooks = [t \in Txns |-> <<>>]
    /\ hookLog = [t \in Txns |-> "none"]
    /\ txn_deleted = [t \in Txns |-> {}]
    /\ queue = <<>>
    /\ unfinished = 0
    /\ closed = FALSE
    /\ active = NULL
    /\ vpc = "none"
    /\ fpc = "none"
    /\ delCommitted = {}
    /\ joinWaited = FALSE
    /\ sinceInit = 0
    /\ poolGen = 0
    /\ stmtGen = 0
    /\ connOk = [t \in Txns |-> FALSE]
    /\ readConnOk = FALSE
    /\ connLost = 0
    /\ storage_lock = NULL
    /\ pool = NoPool
    /\ connection_options = {}
    /\ tidRet = NoTid
    /\ startCall = [t \in Txns |-> NoCall]
    /\ initializer = [i \in Initializers |-> [pc |-> "new", err |-> "none"]]
    /\ blobs = {}
    /\ ublobs = [t \in Txns |-> {}]
    /\ bdel = [t \in Txns |-> {}]
    /\ txn_lock = [t \in Txns |-> NULL]
    /\ inflight = [t \in Txns |-> {}]
    /\ readUse = {}
    /\ replacing = FALSE
    /\ conflicts = [t \in Txns |-> NoConflicts]
    /\ vconn = "unset"
    /\ vlast = NoVacuum
    /\ wcall = [t \in Txns |-> [c \in {"c1", "c2"} |-> NoChunkCall]]

\* --------------------------------------------------------------- initialize

\* the schema once create() has run and initialize has executed
\* _unique_constraint on the new table (lines 519-524)
SchemaAfterCreate == "current"

\* PostgresqlStorage.initialize: the keyword arguments are kept as
\* _connection_options, the pool is made by get_pool(loop), which is given
\* none of them, and the shared read session is opened; _supports_unique_constraints is set when the constraint is found;
\* on UndefinedTableError create() makes the tables and the sequence and the
\* constraint is added; the trash row is inserted unless it exists; the
\* vacuum task is created; _connection_initialized_on is set.
InitializeOf(K) ==
    /\ engine = "new"
    /\ engine' = "ready"
    /\ \E kw \in K : connection_options' = kw
    /\ pool' = CreatePool({})
    /\ schema' = IF schema = "undefined" THEN SchemaAfterCreate ELSE schema
    /\ supports_unique' = (schema \in {"undefined", "current"})
    /\ objects' = IF IsRow(objects[TRASHED_ID]) THEN objects
                  ELSE [objects EXCEPT ![TRASHED_ID] = TrashRow]
    /\ tid_sequence' = IF schema = "undefined" THEN FreshSequence
                       ELSE tid_sequence
    /\ poolGen' = 1
    /\ stmtGen' = 1
    /\ readConnOk' = TRUE
    /\ sinceInit' = 0
    /\ vpc' = "start"
    /\ fpc' = "running"
    /\ UNCHANGED <<uncommitted, txnVars, queue, unfinished, closed, active,
                   delCommitted, joinWaited, connOk, connLost, storage_lock>>
    /\ UNCHANGED <<tidVars, startVars, initVars, blobVars, lockVars, sessVars, vacErrVars, stubVars>>

\* initialize(loop), without connection options
Initialize == InitializeOf({{}})

\* initialize(loop, **kw)
InitializeKw == InitializeOf(ConnectionOptions)

\* ------------------------------------- initialize, statement by statement
\* Storage objects run initialize on one database. Each statement runs on
\* the object's own read session outside a transaction block, so each is a
\* transaction of its own. Beside the values of Init, schema is "tables"
\* when the tables exist and tid_sequence does not yet.

\* where initializer i goes, with the error it raises if any
InitGoes(i, to, err) ==
    initializer' = [initializer EXCEPT ![i] = [pc |-> to, err |-> err]]

InitRest ==
    UNCHANGED <<uncommitted, engine, supports_unique, txnVars, vacVars,
                sinceInit, poolGen, stmtGen, connOk, readConnOk, connLost,
                recVars, tidVars, startVars, blobVars, lockVars, sessVars, vacErrVars, stubVars>>

\* initialize_tid_statements in the try block (line 515): preparing
\* nextval('tid_sequence') raises UndefinedTableError when the sequence
\* does not exist
InitPrepare(i) ==
    /\ initializer[i].pc = "new"
    /\ IF schema \in {"undefined", "tables"}
       THEN InitGoes(i, "create", "none")
       ELSE InitGoes(i, "trash", "none")
    /\ UNCHANGED <<schema, objects, tid_sequence>>
    /\ InitRest

\* create(): CREATE TABLE IF NOT EXISTS for both tables; a
\* UniqueViolationError of a simultaneous creation is passed over
InitCreateTables(i) ==
    /\ initializer[i].pc = "create"
    /\ schema' = IF schema = "undefined" THEN "tables" ELSE schema
    /\ InitGoes(i, "create_sequence", "none")
    /\ UNCHANGED <<objects, tid_sequence>>
    /\ InitRest

\* create(): the indices and CREATE SEQUENCE IF NOT EXISTS tid_sequence,
\* then initialize_tid_statements
InitCreateSequence(i) ==
    /\ initializer[i].pc = "create_sequence"
    /\ schema' = IF schema = "tables" THEN "legacy" ELSE schema
    /\ tid_sequence' = IF schema = "tables" THEN FreshSequence
                       ELSE tid_sequence
    /\ InitGoes(i, "constraint", "none")
    /\ UNCHANGED objects
    /\ InitRest

\* ALTER TABLE ... ADD CONSTRAINT ..._parent_id_id_key UNIQUE (lines
\* 520-522): the statement fails when a relation of that name exists, and
\* initialize has no handler for the error
InitAddConstraint(i) ==
    /\ initializer[i].pc = "constraint"
    /\ IF schema = "current"
       THEN /\ InitGoes(i, "failed", "DuplicateTableError")
            /\ UNCHANGED schema
       ELSE /\ schema' = "current"
            /\ InitGoes(i, "trash", "none")
    /\ UNCHANGED <<objects, tid_sequence>>
    /\ InitRest

\* CREATE_TRASH, its sub-select: WHERE NOT EXISTS (SELECT ... zoid =
\* TRASHED_ID) is evaluated on the statement's snapshot
InitTrashSelect(i) ==
    /\ initializer[i].pc = "trash"
    /\ IF IsRow(objects[TRASHED_ID])
       THEN InitGoes(i, "done", "none")
       ELSE InitGoes(i, "trash_insert", "none")
    /\ UNCHANGED <<schema, objects, tid_sequence>>
    /\ InitRest

\* CREATE_TRASH, its INSERT: the primary key of zoid is checked against the
\* rows committed by now; initialize handles ReadOnlySQLTransactionError and
\* UndefinedTableError only
InitTrashInsert(i) ==
    /\ initializer[i].pc = "trash_insert"
    /\ IF IsRow(objects[TRASHED_ID])
       THEN /\ InitGoes(i, "failed", "UniqueViolationError")
            /\ UNCHANGED objects
       ELSE /\ objects' = [objects EXCEPT ![TRASHED_ID] = TrashRow]
            /\ InitGoes(i, "done", "none")
    /\ UNCHANGED <<schema, tid_sequence>>
    /\ InitRest

\* ------------------------------------------------------------------- tids

\* nextval('tid_sequence')
NextVal(seq) == IF seq.is_called THEN seq.last_value + 1 ELSE seq.last_value

\* what a TID call leaves for the observer: the value it returns, the
\* greatest value any earlier call returned, the sequence as the call met it
Returned(op, val) ==
    [op |-> op, val |-> val,
     prev |-> IF tidRet.val > tidRet.prev THEN tidRet.val ELSE tidRet.prev,
     seq |-> tid_sequence]

\* get_current_tid: MAX_TID (SELECT last_value FROM tid_sequence) on the
\* read session, under the storage lock
GetCurrentTid ==
    /\ engine = "ready" /\ fpc # "done"
    /\ storage_lock = NULL
    /\ readConnOk /\ stmtGen = poolGen
    /\ tidRet' = Returned("current", tid_sequence.last_value)
    /\ UNCHANGED <<dbVars, txnVars, vacVars, poolVars, recVars, startVars,
                   initVars, blobVars, lockVars, sessVars, vacErrVars, stubVars>>

\* get_next_tid on a working read session: the sequence advances and the
\* caller takes the value as its write tid (txn._tid).
GetNextTid(t) ==
    /\ engine = "ready" /\ fpc # "done"
    /\ storage_lock = NULL
    /\ pc[t] = "idle"
    /\ readConnOk /\ stmtGen = poolGen
    /\ NextVal(tid_sequence) <= MaxTid
    /\ tid_sequence' = [last_value |-> NextVal(tid_sequence), is_called |-> TRUE]
    /\ txn_tid' = [txn_tid EXCEPT ![t] = NextVal(tid_sequence)]
    /\ pc' = [pc EXCEPT ![t] = "tid"]
    /\ lastOp' = [lastOp EXCEPT ![t] = NoOp]
    /\ hookLog' = [hookLog EXCEPT ![t] = "none"]
    /\ txn_deleted' = [txn_deleted EXCEPT ![t] = {}]
    /\ UNCHANGED <<schema, objects, uncommitted, req, hooks, vacVars, poolVars>>
    /\ tidRet' = Returned("next", NextVal(tid_sequence))
    /\ UNCHANGED <<recVars, startVars, initVars, blobVars, lockVars, sessVars, vacErrVars, stubVars>>

\* start_transaction, first attempt succeeding: the transaction has its
\* session (txn.get_connection) and the backend transaction is started.
StartTransaction(t) ==
    /\ engine = "ready"
    /\ pc[t] = "tid"
    /\ pc' = [pc EXCEPT ![t] = "active"]
    /\ connOk' = [connOk EXCEPT ![t] = TRUE]
    /\ UNCHANGED <<dbVars, txn_tid, req, lastOp, hooks, hookLog, txn_deleted,
                   vacVars, engine, supports_unique, sinceInit, poolGen,
                   stmtGen, readConnOk, connLost>>
    /\ UNCHANGED auxVars

\* ------------------------------------------------------------------- load

\* load(txn, oid): the row GET_OID finds, or KeyError
KeyError == [raises |-> "KeyError"]

Load(t, o) == IF IsRow(Visible(t, o)) THEN Visible(t, o) ELSE KeyError

\* ------------------------------------------------------------------ store

\* asyncpg's message for a statement on a session that is gone
ClosedMsg == "cannot perform operation: connection is closed"

\* asyncpg's message for two statements at once on one session
BusyMsg == "cannot perform operation: another operation is in progress"

InterfaceErrors == {ClosedMsg, BusyMsg, "connection is closed", "pool is closed"}

\* What store raises for the outcome of its statement ("none": it goes on to
\* the cache): lines 645-674.
StoreErrorMutant(res, update) ==
    IF res.err = "UniqueViolationError" THEN "TIDConflictError"
    ELSE IF res.err = "ForeignKeyViolationError" THEN "TIDConflictError"
    ELSE IF res.err = "DeadlockDetectedError" THEN "ConflictError"
    ELSE IF res.err = BusyMsg THEN "ConflictError"
    ELSE IF res.err \in InterfaceErrors THEN "InterfaceError"
    ELSE IF res.count # 1 /\ update THEN "TIDConflictError"
    ELSE "none"

\* a foreign-key violation passed on as it is
StoreErrorFkMutant(res, update) ==
    IF res.err = "UniqueViolationError" THEN "ConflictIdOnContainer"
    ELSE IF res.err = "ForeignKeyViolationError"
         THEN "ForeignKeyViolationError"
    ELSE IF res.err = "DeadlockDetectedError" THEN "ConflictError"
    ELSE IF res.err = BusyMsg THEN "ConflictError"
    ELSE IF res.err \in InterfaceErrors THEN "InterfaceError"
    ELSE IF res.count # 1 /\ update THEN "TIDConflictError"
    ELSE "none"

StoreError(res, update) ==
    IF res.err = "UniqueViolationError" THEN "ConflictIdOnContainer"
    ELSE IF res.err = "ForeignKeyViolationError" THEN "TIDConflictError"
    ELSE IF res.err = "DeadlockDetectedError" THEN "ConflictError"
    ELSE IF res.err = BusyMsg THEN "ConflictError"
    ELSE IF res.err \in InterfaceErrors THEN "InterfaceError"
    ELSE IF res.count # 1 /\ update THEN "TIDConflictError"
    ELSE "none"

\* the tid of the row version a statement of t finds for o: {} when none
SeenTid(t, o) == IF IsRow(Visible(t, o)) THEN {Visible(t, o).tid} ELSE {}

\* store from the statement's answer on: the error is translated, a
\* foreign-key violation marks the object deleted in the transaction, and
\* only a store that raised nothing notifies the cache (line 675).
FinishStore(t, r, res) ==
    LET raised == StoreError(res, r.update)
        ran == res.err \notin InterfaceErrors \cup {"DeadlockDetectedError"}
        after == IF res.err = "none" /\ res.count = 1
                 THEN [uncommitted EXCEPT ![t][r.oid] = res.row]
                 ELSE uncommitted
    IN /\ uncommitted' = after
       /\ txn_deleted' = IF res.err = "ForeignKeyViolationError"
                         THEN [txn_deleted EXCEPT ![t] = @ \cup {r.oid}]
                         ELSE txn_deleted
       /\ lastOp' = [lastOp EXCEPT ![t] =
                       [op |-> "store", oid |-> r.oid, update |-> r.update,
                        otid |-> r.otid, seen |-> SeenTid(t, r.oid),
                        dup |-> (ran /\ WouldWrite(t, r) /\ Key(NewRow(t, r)) # {}
                                 /\ \E o2 \in AllOids \ {r.oid} :
                                       Key(Visible(t, o2)) = Key(NewRow(t, r))),
                        err |-> res.err, raised |-> raised,
                        late |-> (sinceInit > BAD_CONNECTION_RESTART_DELAY),
                        wrote |-> (after # uncommitted),
                        cached |-> (raised = "none")]]
       /\ pc' = [pc EXCEPT ![t] = IF raised = "none" THEN "active" ELSE "error"]
       /\ req' = [req EXCEPT ![t] = NoReq]

\* delete from the statement's answer on: an error of TRASH_PARENT_ID is not
\* caught; otherwise the after-commit hook is registered (line 686).
FinishDelete(t, r, res) ==
    /\ uncommitted' = IF res.err = "none" /\ res.count = 1
                      THEN [uncommitted EXCEPT ![t][r.oid] = res.row]
                      ELSE uncommitted
    /\ hooks' = IF res.err = "none" THEN [hooks EXCEPT ![t] = Append(@, r.oid)]
                ELSE hooks
    /\ lastOp' = [lastOp EXCEPT ![t] =
                    [op |-> "delete", oid |-> r.oid, raised |-> res.err]]
    /\ pc' = [pc EXCEPT ![t] = IF res.err = "none" THEN "active" ELSE "error"]
    /\ req' = [req EXCEPT ![t] = NoReq]

\* A call whose statement is r: on a dead session the statement raises the
\* interface error; when another transaction is in its way the call waits
\* (req holds the statement); otherwise the statement runs.
Call(t, r) ==
    LET res == IF ~connOk[t] THEN Outcome(ClosedMsg, 0, NoWrite) ELSE Run(t, r)
    IN IF connOk[t] /\ Blocked(t, r)
       THEN /\ pc' = [pc EXCEPT ![t] = "waiting"]
            /\ req' = [req EXCEPT ![t] = r]
            /\ UNCHANGED <<uncommitted, lastOp, hooks, txn_deleted>>
       ELSE IF r.op = "store"
            THEN FinishStore(t, r, res) /\ UNCHANGED hooks
            ELSE FinishDelete(t, r, res) /\ UNCHANGED txn_deleted

\* store(oid, old_serial, writer, obj, txn), the caller's objects drawn from
\* the new markers M, the prior serials S and the writers W. A transaction
\* stores an object once (txn.modified holds one entry per oid).
StoreOf(t, M, S, W) ==
    /\ pc[t] = "active"
    /\ \E o \in StoreOids, new_marker \in M, old_serial \in S, w \in W :
          /\ uncommitted[t][o] = NoWrite
          /\ Call(t, StoreReq(o, new_marker, old_serial, w))
    /\ UNCHANGED <<schema, objects, tid_sequence, txn_tid, hookLog, vacVars,
                   poolVars>>
    /\ UNCHANGED auxVars

\* store of any object
Store(t) == StoreOf(t, BOOLEAN, Serials, Writers)

\* store of a new object (new marker, no prior serial) named "a"
StoreNew(t) ==
    StoreOf(t, {TRUE}, {{}}, {w \in Writers : w.id = "a"})

\* delete(txn, oid)
Delete(t) ==
    /\ pc[t] = "active"
    /\ \E o \in OIDs :
          /\ Len(hooks[t]) < MaxDeletes
          /\ \A i \in 1 .. Len(hooks[t]) : hooks[t][i] # o
          /\ Call(t, DeleteReq(o))
    /\ UNCHANGED <<schema, objects, tid_sequence, txn_tid, hookLog, vacVars,
                   poolVars>>
    /\ UNCHANGED auxVars

\* the statement a call waits with runs once nothing is in its way
Resume(t) ==
    /\ pc[t] = "waiting"
    /\ ~connOk[t] \/ ~Blocked(t, req[t])
    /\ LET res == IF ~connOk[t] THEN Outcome(ClosedMsg, 0, NoWrite)
                  ELSE Run(t, req[t])
       IN IF req[t].op = "store"
          THEN FinishStore(t, req[t], res) /\ UNCHANGED hooks
          ELSE FinishDelete(t, req[t], res) /\ UNCHANGED txn_deleted
    /\ UNCHANGED <<schema, objects, tid_sequence, txn_tid, hookLog, vacVars,
                   poolVars>>
    /\ UNCHANGED auxVars

\* the statement t waits with and the vacuum's DELETE wait for each other
VacuumCycle(t) ==
    /\ pc[t] = "waiting" /\ connOk[t]
    /\ VacuumBlocks(t, req[t])
    /\ t \in DeleteWaits(active)

\* two waiting statements wait for each other: the backend ends one of them
\* with DeadlockDetectedError
Deadlock(t) ==
    /\ pc[t] = "waiting" /\ connOk[t]
    /\ \/ \E u \in Blockers(t, req[t]) :
             pc[u] = "waiting" /\ t \in Blockers(u, req[u])
       \/ VacuumCycle(t)
    /\ LET res == Outcome("DeadlockDetectedError", 0, NoWrite)
       IN IF req[t].op = "store"
          THEN FinishStore(t, req[t], res) /\ UNCHANGED hooks
          ELSE FinishDelete(t, req[t], res) /\ UNCHANGED txn_deleted
    /\ UNCHANGED <<schema, objects, tid_sequence, txn_tid, hookLog, vacVars,
                   poolVars>>
    /\ UNCHANGED auxVars

\* ------------------------------------------------------- commit and abort

\* the committed table once t's row versions are committed
Committed(t) == [o \in AllOids |->
                    IF uncommitted[t][o] # NoWrite THEN uncommitted[t][o]
                    ELSE objects[o]]

\* commit(txn): the backend transaction commits; the caller then runs the
\* after-commit hooks. On a dead session the commit raises.
Commit(t) ==
    /\ pc[t] = "active"
    /\ IF connOk[t]
       THEN /\ objects' = Committed(t)
            /\ blobs' = (blobs \ bdel[t]) \cup ublobs[t]
            /\ pc' = [pc EXCEPT ![t] = "committed"]
            /\ delCommitted' = delCommitted \cup
                                  {hooks[t][i] : i \in 1 .. Len(hooks[t])}
       ELSE /\ pc' = [pc EXCEPT ![t] = "error"]
            /\ UNCHANGED <<objects, delCommitted, blobs>>
    /\ uncommitted' = [uncommitted EXCEPT ![t] = NoWrites]
    /\ UNCHANGED <<schema, tid_sequence, txn_tid, req, lastOp, hooks, hookLog,
                   txn_deleted, queue, unfinished, closed, active, vpc, fpc,
                   joinWaited, poolVars>>
    /\ ublobs' = [ublobs EXCEPT ![t] = {}]
    /\ bdel' = [bdel EXCEPT ![t] = {}]
    /\ UNCHANGED <<recVars, tidVars, startVars, initVars, lockVars, sessVars, vacErrVars, stubVars>>

\* abort(txn): the backend transaction is rolled back (an interface error of
\* a session already closed is swallowed); the hooks are dropped; the
\* session goes back to the pool and the handle is free for the next request
\* (lastOp, the record of the aborted work, is cleared with it).
Abort(t) ==
    /\ pc[t] \in {"active", "error"}
    /\ uncommitted' = [uncommitted EXCEPT ![t] = NoWrites]
    /\ hooks' = [hooks EXCEPT ![t] = <<>>]
    /\ pc' = [pc EXCEPT ![t] = "idle"]
    /\ connOk' = [connOk EXCEPT ![t] = FALSE]
    /\ lastOp' = [lastOp EXCEPT ![t] = NoOp]
    /\ UNCHANGED <<schema, objects, tid_sequence, txn_tid, req,
                   hookLog, txn_deleted, vacVars, engine, supports_unique,
                   sinceInit, poolGen, stmtGen, readConnOk, connLost>>
    /\ ublobs' = [ublobs EXCEPT ![t] = {}]
    /\ bdel' = [bdel EXCEPT ![t] = {}]
    /\ UNCHANGED <<recVars, tidVars, startVars, initVars, blobs, lockVars, sessVars, vacErrVars, stubVars>>

\* ------------------------------------------------------- after-commit hooks

\* PGVacuum.add_to_queue raises ('Closing down') instead of enqueuing
AddToQueueRaisesMutant == FALSE

AddToQueueRaises == closed

\* The caller runs the next after-commit hook of a committed transaction:
\* _txn_oid_commit_hook, which is add_to_queue(oid).
RunHook(t) ==
    /\ pc[t] = "committed"
    /\ hooks[t] # <<>>
    /\ hooks' = [hooks EXCEPT ![t] = Tail(@)]
    /\ IF AddToQueueRaises
       THEN /\ hookLog' = [hookLog EXCEPT ![t] = "raised"]
            /\ UNCHANGED <<queue, unfinished>>
       ELSE /\ hookLog' = [hookLog EXCEPT ![t] = "enqueued"]
            /\ queue' = Append(queue, Head(hooks[t]))
            /\ unfinished' = unfinished + 1
    /\ UNCHANGED <<dbVars, pc, txn_tid, req, lastOp, txn_deleted, closed,
                   active, vpc, fpc, delCommitted, joinWaited, poolVars>>
    /\ UNCHANGED auxVars

\* the request is over: the session goes back to the pool
TxnDone(t) ==
    /\ pc[t] = "committed"
    /\ hooks[t] = <<>>
    /\ pc' = [pc EXCEPT ![t] = "idle"]
    /\ connOk' = [connOk EXCEPT ![t] = FALSE]
    /\ hookLog' = [hookLog EXCEPT ![t] = "none"]
    /\ UNCHANGED <<dbVars, txn_tid, req, lastOp, hooks, txn_deleted,
                   vacVars, engine, supports_unique, sinceInit, poolGen,
                   stmtGen, readConnOk, connLost>>
    /\ UNCHANGED auxVars

\* ------------------------------------------------------------- the vacuum

\* GET_TRASHED_OBJECTS on a session of its own: the committed rows whose
\* parent is the trash row
TrashedObjectsMutant ==
    {o \in AllOids : \/ IsRow(objects[o]) /\ objects[o].parent_id = TRASHED_ID
                     \/ \E t \in Txns : IsRow(uncommitted[t][o])
                           /\ uncommitted[t][o].parent_id = TRASHED_ID}

TrashedObjects ==
    {o \in AllOids : IsRow(objects[o]) /\ objects[o].parent_id = TRASHED_ID}

\* the orders in which a fetch may return the rows of S
Orders(S) == {q \in [1 .. Cardinality(S) -> S] :
                \A i, j \in 1 .. Cardinality(S) : i # j => q[i] # q[j]}

\* _initialize, its first part: the trashed rows are fetched and put on the
\* queue with put_nowait (which does not look at _closed).
VacuumScan ==
    /\ vpc = "start"
    /\ \E q \in Orders(TrashedObjects) :
          /\ queue' = queue \o q
          /\ unfinished' = unfinished + Len(q)
    /\ vpc' = "scanned"
    /\ UNCHANGED <<dbVars, txnVars, closed, active, fpc, delCommitted,
                   joinWaited, poolVars>>
    /\ UNCHANGED auxVars

\* where the task goes at "while not self._closed" (lines 276 and 301)
LoopCheck == IF closed THEN "done" ELSE "get"

\* _initialize: the scan's session is released and the loop is entered
VacuumScanned ==
    /\ vpc = "scanned"
    /\ vpc' = LoopCheck
    /\ UNCHANGED <<dbVars, txnVars, queue, unfinished, closed, active, fpc,
                   delCommitted, joinWaited, poolVars>>
    /\ UNCHANGED auxVars

\* the loop: queue.get() returns the next oid, _active is set and
\* vacuum(oid) is called
VacuumGet ==
    /\ vpc = "get"
    /\ queue # <<>>
    /\ active' = Head(queue)
    /\ queue' = Tail(queue)
    /\ vpc' = "vacuum"
    /\ UNCHANGED <<dbVars, txnVars, unfinished, closed, fpc, delCommitted,
                   joinWaited, poolVars>>
    /\ UNCHANGED auxVars

\* the registered statement DELETE_OBJECT, in its own (autocommit) session
DELETE_OBJECT(o) ==
    IF IsRow(objects[o])
    THEN [o2 \in AllOids |-> IF o2 \in Cascade({o}) THEN NoRow ELSE objects[o2]]
    ELSE objects

\* vacuum(oid) and the rest of the loop's body: the row is deleted, _active
\* is reset, task_done is called and the loop condition is looked at.
VacuumDelete ==
    /\ vpc \in {"vacuum", "deleting"}
    /\ DeleteWaits(active) = {}
    /\ objects' = DELETE_OBJECT(active)
    /\ active' = NULL
    /\ unfinished' = unfinished - 1
    /\ vpc' = LoopCheck
    /\ UNCHANGED <<schema, tid_sequence, uncommitted, txnVars, queue, closed,
                   fpc, delCommitted, joinWaited, poolVars>>
    /\ blobs' = IF IsRow(objects[active])
                THEN blobs \ BlobsOf(Cascade({active})) ELSE blobs
    /\ UNCHANGED <<recVars, tidVars, startVars, initVars, ublobs, bdel, lockVars, sessVars, vacErrVars, stubVars>>

\* vacuum(oid): DELETE_OBJECT removes the row of oid and then waits, in the
\* cascade, for a transaction that holds a row below it
VacuumDeleteBlocked ==
    /\ vpc = "vacuum"
    /\ IsRow(objects[active])
    /\ DeleteWaits(active) # {}
    /\ DeleteWaitsAtRow(active) = {}
    /\ vpc' = "deleting"
    /\ UNCHANGED <<dbVars, txnVars, queue, unfinished, closed, active, fpc,
                   delCommitted, joinWaited, poolVars>>
    /\ UNCHANGED auxVars

\* The backend ends the vacuum's DELETE with DeadlockDetectedError: vacuum
\* logs the error ("Error deleting trashed object") and returns, the row
\* stays, and the loop goes on with task_done as after any vacuum.
VacuumDeadlock ==
    /\ vpc = "deleting"
    /\ \E t \in Txns : VacuumCycle(t)
    /\ active' = NULL
    /\ unfinished' = unfinished - 1
    /\ vpc' = LoopCheck
    /\ UNCHANGED <<dbVars, txnVars, queue, closed, fpc, delCommitted,
                   joinWaited, poolVars>>
    /\ UNCHANGED auxVars

\* ---------------------------------------------------------------- finalize

\* queue.join() returns: no put is left without its task_done
JoinReturnsMutant == TRUE

JoinReturns == unfinished = 0

\* PostgresqlStorage.finalize after "await self._vacuum.finalize()": the
\* vacuum task is cancelled, the read session released and the pool
\* terminated, which ends every session and its backend transaction.
AfterJoin ==
    /\ fpc' = "done"
    /\ vpc' = IF vpc = "done" THEN "done" ELSE "cancelled"
    /\ readConnOk' = FALSE
    /\ connOk' = [t \in Txns |-> FALSE]
    /\ uncommitted' = [t \in Txns |-> NoWrites]
    /\ UNCHANGED <<schema, objects, tid_sequence, txnVars, queue, unfinished,
                   active, delCommitted, engine, supports_unique,
                   sinceInit, poolGen, stmtGen, connLost>>

\* PostgresqlStorage.finalize calls PGVacuum.finalize: _closed is set and
\* queue.join() awaited; join returns at once, and finalize goes on, when
\* nothing is unfinished.
FinalizeBegin ==
    /\ engine = "ready"
    /\ fpc = "running"
    /\ closed' = TRUE
    /\ IF JoinReturns
       THEN AfterJoin /\ UNCHANGED joinWaited
       ELSE /\ fpc' = "joining"
            /\ joinWaited' = TRUE
            /\ UNCHANGED <<dbVars, txnVars, queue, unfinished, active, vpc,
                           delCommitted, poolVars>>
    /\ UNCHANGED auxVars

\* queue.join() returns after a wait and PostgresqlStorage.finalize goes on
FinalizeEnd ==
    /\ fpc = "joining"
    /\ JoinReturns
    /\ AfterJoin
    /\ UNCHANGED <<closed, joinWaited>>
    /\ UNCHANGED auxVars

\* ----------------------------------------------------- the pool's recovery

\* time passes
Tick ==
    /\ engine = "ready"
    /\ sinceInit < MaxTicks * TickMs
    /\ sinceInit' = sinceInit + TickMs
    /\ UNCHANGED <<dbVars, txnVars, vacVars, engine, supports_unique, poolGen,
                   stmtGen, connOk, readConnOk, connLost>>
    /\ UNCHANGED auxVars

\* the environment breaks the session of a transaction: the backend rolls
\* its transaction back
ConnLost(t) ==
    /\ pc[t] \in {"active", "waiting"}
    /\ connOk[t]
    /\ connLost < MaxConnLoss
    /\ connLost' = connLost + 1
    /\ connOk' = [connOk EXCEPT ![t] = FALSE]
    /\ uncommitted' = [uncommitted EXCEPT ![t] = NoWrites]
    /\ UNCHANGED <<schema, objects, tid_sequence, txnVars, vacVars, engine,
                   supports_unique, sinceInit, poolGen, stmtGen, readConnOk>>
    /\ UNCHANGED auxVars

\* the environment breaks the shared read session
ReadConnLost ==
    /\ engine = "ready" /\ fpc = "running"
    /\ readConnOk
    /\ connLost < MaxConnLoss
    /\ connLost' = connLost + 1
    /\ readConnOk' = FALSE
    /\ UNCHANGED <<dbVars, txnVars, vacVars, engine, supports_unique,
                   sinceInit, poolGen, stmtGen, connOk>>
    /\ UNCHANGED auxVars

\* a check of the message alone
CheckBadConnectionMutant(msg) ==
    msg \in {ClosedMsg, "connection is closed", "pool is closed"}

\* _check_bad_connection: whether the error leads to restart_connection
CheckBadConnection(msg) ==
    /\ msg \in {ClosedMsg, "connection is closed", "pool is closed"}
    /\ sinceInit > BAD_CONNECTION_RESTART_DELAY

\* restart_connection up to its raise: the old pool is closed and terminated
\* (and with it every session and its backend transaction), the pool is
\* created anew with _connection_options, the read session is reopened, the
\* TID statements are prepared on it and the time is recorded.
RestartConnection ==
    /\ poolGen' = poolGen + 1
    /\ pool' = CreatePool(connection_options)
    /\ stmtGen' = poolGen + 1
    /\ readConnOk' = TRUE
    /\ sinceInit' = 0
    /\ connOk' = [u \in Txns |-> FALSE]
    /\ uncommitted' = [u \in Txns |-> NoWrites]
    /\ ublobs' = [u \in Txns |-> {}]
    /\ bdel' = [u \in Txns |-> {}]

\* get_next_tid on a broken read session, the storage lock held: the
\* interface error goes to _check_bad_connection; restart_connection ends
\* by raising ConflictError; without a restart the interface error is raised.
GetNextTidFails(t) ==
    /\ engine = "ready" /\ fpc = "running"
    /\ storage_lock = NULL
    /\ pc[t] = "idle"
    /\ ~readConnOk
    /\ IF CheckBadConnection(ClosedMsg)
       THEN /\ RestartConnection
            /\ lastOp' = [lastOp EXCEPT ![t] =
                  [op |-> "get_next_tid", raised |-> "ConflictError"]]
       ELSE /\ lastOp' = [lastOp EXCEPT ![t] =
                  [op |-> "get_next_tid", raised |-> "InterfaceError"]]
            /\ UNCHANGED <<poolGen, stmtGen, readConnOk, sinceInit, connOk,
                           uncommitted, pool, ublobs, bdel>>
    /\ UNCHANGED <<schema, objects, tid_sequence, pc, txn_tid, req, hooks,
                   hookLog, txn_deleted, vacVars, engine, supports_unique,
                   connLost, storage_lock, connection_options>>
    /\ UNCHANGED <<tidVars, startVars, initVars, blobs, lockVars, sessVars, vacErrVars, stubVars>>

\* interface errors are met while the pool has been restarted at most this
\* many times
MaxRestarts == 2

\* the messages of the interface errors a session or the pool may raise
Messages == {ClosedMsg, "connection is closed", "pool is closed", BusyMsg}

\* An interface error is met outside the storage lock: by pool.acquire in
\* open (txn.get_connection, lines 581-584) or by the transaction factory
\* in start_transaction (lines 730-733). The handler then asks for the
\* storage lock.
InterfaceErrorSeen(t) ==
    /\ engine = "ready" /\ fpc = "running"
    /\ poolGen <= MaxRestarts
    /\ pc[t] = "tid"
    /\ \E op \in {"open", "start_transaction"}, m \in Messages :
          lastOp' = [lastOp EXCEPT ![t] = [op |-> op, msg |-> m]]
    /\ pc' = [pc EXCEPT ![t] = "lockwait"]
    /\ UNCHANGED <<dbVars, txn_tid, req, hooks, hookLog, txn_deleted, vacVars,
                   poolVars, auxVars>>

\* "async with self._lock" of the handler is entered
LockAcquired(t) ==
    /\ pc[t] = "lockwait"
    /\ storage_lock = NULL
    /\ storage_lock' = t
    /\ pc' = [pc EXCEPT ![t] = "checking"]
    /\ UNCHANGED <<dbVars, txn_tid, req, lastOp, hooks, hookLog, txn_deleted,
                   vacVars, poolVars, pool, connection_options>>
    /\ UNCHANGED <<tidVars, startVars, initVars, blobVars, lockVars, sessVars, vacErrVars, stubVars>>

\* get_next_tid takes the storage lock and its statement raises an
\* interface error (lines 696-702)
GetNextTidError(t) ==
    /\ engine = "ready" /\ fpc = "running"
    /\ poolGen <= MaxRestarts
    /\ pc[t] = "idle"
    /\ storage_lock = NULL
    /\ storage_lock' = t
    /\ \E m \in Messages :
          lastOp' = [lastOp EXCEPT ![t] = [op |-> "get_next_tid", msg |-> m]]
    /\ pc' = [pc EXCEPT ![t] = "checking"]
    /\ UNCHANGED <<dbVars, txn_tid, req, hooks, hookLog, txn_deleted, vacVars,
                   poolVars, pool, connection_options>>
    /\ UNCHANGED <<tidVars, startVars, initVars, blobVars, lockVars, sessVars, vacErrVars, stubVars>>

\* _check_bad_connection(ex), the lock held: restart_connection is entered,
\* or nothing is done and the caller goes on: open returns (None),
\* get_next_tid and start_transaction raise the interface error.
CheckConnection(t) ==
    /\ pc[t] = "checking"
    /\ IF CheckBadConnection(lastOp[t].msg)
       THEN /\ pc' = [pc EXCEPT ![t] = "restarting"]
            /\ lastOp' = [lastOp EXCEPT ![t] =
                  [op |-> "restart_connection", msg |-> lastOp[t].msg,
                   gap |-> sinceInit, locked |-> (storage_lock = t)]]
            /\ UNCHANGED storage_lock
       ELSE /\ pc' = [pc EXCEPT ![t] = "idle"]
            /\ lastOp' = [lastOp EXCEPT ![t] =
                  [op |-> lastOp[t].op, msg |-> lastOp[t].msg,
                   raised |-> IF lastOp[t].op = "open" THEN "none"
                              ELSE "InterfaceError"]]
            /\ storage_lock' = NULL
    /\ UNCHANGED <<dbVars, txn_tid, req, hooks, hookLog, txn_deleted, vacVars,
                   poolVars, pool, connection_options>>
    /\ UNCHANGED <<tidVars, startVars, initVars, blobVars, lockVars, sessVars, vacErrVars, stubVars>>

\* restart_connection runs to its end: ConflictError is raised and leaves
\* the lock's block
RestartDone(t) ==
    /\ pc[t] = "restarting"
    /\ RestartConnection
    /\ storage_lock' = NULL
    /\ pc' = [pc EXCEPT ![t] = "idle"]
    /\ lastOp' = [lastOp EXCEPT ![t] =
          [op |-> "restart_connection", msg |-> lastOp[t].msg,
           gap |-> lastOp[t].gap, locked |-> lastOp[t].locked,
           raised |-> "ConflictError"]]
    /\ UNCHANGED <<schema, objects, tid_sequence, txn_tid, req, hooks,
                   hookLog, txn_deleted, vacVars, engine, supports_unique,
                   connLost, connection_options>>
    /\ UNCHANGED <<tidVars, startVars, initVars, blobs, lockVars, sessVars, vacErrVars, stubVars>>

\* -------------------------------------------------------- blob operations

\* what the blob operations leave alone
BlobRest ==
    UNCHANGED <<schema, objects, tid_sequence, txn_tid, req, hooks, hookLog,
                txn_deleted, vacVars, poolVars, recVars, tidVars, startVars,
                initVars, blobs, lockVars, sessVars, vacErrVars, stubVars>>

\* other transactions whose uncommitted work the statements of
\* write_blob_chunk(bid, oid, index, data) wait for: an uncommitted insert
\* of the object row (the stub's primary key), an uncommitted insert or
\* delete of a chunk row with the same primary key
WriteBlobWaits(t, row) ==
    {u \in Txns \ {t} :
        \/ ~IsRow(objects[row.zoid]) /\ IsRow(uncommitted[u][row.zoid])
        \/ \E r \in ublobs[u] \cup bdel[u] : SameChunkKey(r, row)}

\* write_blob_chunk: HAS_OBJECT on the transaction's session; without a row
\* the stub is inserted; then INSERT_BLOB_CHUNK, which raises
\* UniqueViolationError when the primary key is taken
WriteBlobChunkOf(t, B, D) ==
    /\ engine = "ready"
    /\ pc[t] = "active" /\ connOk[t]
    /\ Cardinality(AllChunkRows) < MaxBlobRows
    /\ \E bid \in B, oid \in BlobOids, index \in ChunkIndexes, data \in D :
          LET row == ChunkRow(bid, oid, index, data)
              had == IsRow(Visible(t, oid))
              dup == \E r \in VisibleBlobs(t) : SameChunkKey(r, row)
          IN  /\ WriteBlobWaits(t, row) = {}
              /\ oid \notin VacuumHolds
              /\ uncommitted' = IF had THEN uncommitted
                                ELSE [uncommitted EXCEPT ![t][oid] = StubRow]
              /\ ublobs' = IF dup THEN ublobs
                           ELSE [ublobs EXCEPT ![t] = @ \cup {row}]
              /\ pc' = IF dup THEN [pc EXCEPT ![t] = "error"] ELSE pc
              /\ lastOp' = [lastOp EXCEPT ![t] =
                    [op |-> "write_blob_chunk", bid |-> bid, oid |-> oid,
                     index |-> index, data |-> data, had |-> had,
                     err |-> IF dup THEN "UniqueViolationError" ELSE "none"]]
    /\ UNCHANGED bdel
    /\ BlobRest

WriteBlobChunk(t) == WriteBlobChunkOf(t, Bids, ChunkData)

\* write_blob_chunk for one bid and one content
WriteOneBlob(t) == WriteBlobChunkOf(t, {"b1"}, {"x"})

\* read_blob_chunk(bid, chunk): READ_BLOB_CHUNK selects by bid and
\* chunk_index and fetchrow returns the first row of the result, or None
ReadBlobChunk(t) ==
    /\ engine = "ready"
    /\ pc[t] = "active" /\ connOk[t]
    /\ \E bid \in Bids, index \in ChunkIndexes :
          LET rows == {r \in VisibleBlobs(t) :
                          r.bid = bid /\ r.chunk_index = index}
          IN  \E res \in IF rows = {} THEN {{}}
                          ELSE {{r.data} : r \in rows} :
                lastOp' = [lastOp EXCEPT ![t] =
                    [op |-> "read_blob_chunk", bid |-> bid, index |-> index,
                     result |-> res, matched |-> Cardinality(rows),
                     after |-> IF lastOp[t].op = "write_blob_chunk"
                                  /\ lastOp[t].bid = bid
                                  /\ lastOp[t].index = index
                               THEN lastOp[t] ELSE NoOp]]
    /\ UNCHANGED <<uncommitted, pc, ublobs, bdel>>
    /\ BlobRest

\* a bid is the hex digits of a uuid, not a statement
IsStatement(query) == query \notin Bids

\* conn.cursor(query): the rows the statement selects, or the error of
\* the backend's parser
Cursor(t, query) ==
    IF IsStatement(query)
    THEN [rows |-> <<>>, raised |-> "none"]
    ELSE [rows |-> <<>>, raised |-> "PostgresSyntaxError"]

\* read_blob_chunks(bid): "async for record in conn.cursor(bid)", the bid
\* given as the query
ReadBlobChunks(t) ==
    /\ engine = "ready"
    /\ pc[t] = "active" /\ connOk[t]
    /\ \E bid \in Bids :
          /\ lastOp' = [lastOp EXCEPT ![t] =
                [op |-> "read_blob_chunks", bid |-> bid, query |-> bid,
                 yielded |-> Cursor(t, bid).rows,
                 raised |-> Cursor(t, bid).raised, locked |-> FALSE]]
          /\ pc' = IF Cursor(t, bid).raised = "none" THEN pc
                   ELSE [pc EXCEPT ![t] = "error"]
    /\ UNCHANGED <<uncommitted, ublobs, bdel>>
    /\ BlobRest

\* del_blob(bid): DELETE_BLOB removes the rows of the bid the transaction
\* sees; it waits for rows another transaction has deleted
DelBlob(t) ==
    /\ engine = "ready"
    /\ pc[t] = "active" /\ connOk[t]
    /\ \E bid \in Bids :
          /\ \A u \in Txns \ {t} : \A r \in bdel[u] : r.bid # bid
          /\ ublobs' = [ublobs EXCEPT ![t] = {r \in @ : r.bid # bid}]
          /\ bdel' = [bdel EXCEPT ![t] = @ \cup {r \in blobs : r.bid = bid}]
          /\ lastOp' = [lastOp EXCEPT ![t] = [op |-> "del_blob", bid |-> bid]]
    /\ UNCHANGED <<uncommitted, pc>>
    /\ BlobRest

\* ------------------------------------------------- the transaction's lock

\* coroutines of one request that use the same transaction
Callers == {"c1", "c2"}

\* the operations that run a query on the transaction's session
Operations ==
    {"store", "load", "delete", "keys", "get_child", "get_children",
     "has_key", "len", "get_annotation", "get_annotation_keys",
     "get_page_of_keys", "write_blob_chunk", "read_blob_chunk", "del_blob",
     "commit", "abort", "items", "read_blob_chunks"}

\* the operations whose query is awaited inside "async with txn._lock": all
\* but the cursors of items (854) and read_blob_chunks (903) and the
\* conn.fetch of get_page_of_keys (811)
TakesLock(op) ==
    op \notin {"items", "read_blob_chunks", "get_page_of_keys"}

\* a coroutine calls an operation: it enters the lock's block when the
\* operation has one, waiting while the lock is held, and awaits the query
QueryBegin(t, c) ==
    /\ engine = "ready"
    /\ pc[t] = "active"
    /\ \A q \in inflight[t] : q.caller # c
    /\ \E op \in Operations :
          /\ TakesLock(op) => txn_lock[t] = NULL
          /\ txn_lock' = IF TakesLock(op) THEN [txn_lock EXCEPT ![t] = c]
                         ELSE txn_lock
          /\ inflight' = [inflight EXCEPT ![t] =
                             @ \cup {[caller |-> c, op |-> op]}]
    /\ UNCHANGED <<dbVars, txnVars, vacVars, poolVars, recVars, tidVars,
                   startVars, initVars, blobVars, sessVars, vacErrVars, stubVars>>

\* the query returns and the lock's block, if any, is left; the last query
\* of a transaction, when it is commit or abort, ends the transaction
QueryEnd(t, c) ==
    /\ \E q \in inflight[t] :
          /\ q.caller = c
          /\ inflight' = [inflight EXCEPT ![t] = @ \ {q}]
          /\ txn_lock' = IF txn_lock[t] = c THEN [txn_lock EXCEPT ![t] = NULL]
                         ELSE txn_lock
          /\ IF q.op \in {"commit", "abort"} /\ inflight[t] = {q}
             THEN /\ pc' = [pc EXCEPT ![t] = "idle"]
                  /\ connOk' = [connOk EXCEPT ![t] = FALSE]
             ELSE UNCHANGED <<pc, connOk>>
    /\ UNCHANGED <<dbVars, txn_tid, req, lastOp, hooks, hookLog, txn_deleted,
                   vacVars, engine, supports_unique, sinceInit, poolGen,
                   stmtGen, readConnOk, connLost, recVars, tidVars, startVars,
                   initVars, blobVars, sessVars, vacErrVars, stubVars>>

\* the errors txn._db_txn.start() is caught with (lines 739-741)
ManualMsg == "cannot use Connection.transaction() in a manually started transaction"

StartErrors ==
    [cls : {"InternalServerError"}, sqlstate : {"XX000", "57P01"},
     msg : {"internal"}]
    \cup [cls : {"InterfaceError"}, sqlstate : {"none"},
          msg : {ManualMsg, ClosedMsg, BusyMsg}]

\* the messages that contain 'connection is closed'
HasClosed(msg) == msg \in {ClosedMsg, "connection is closed"}

\* restart and rollback as lines 746-754 set them
RestartFlag(e) ==
    IF e.cls = "InternalServerError" THEN TRUE
    ELSE e.msg = ManualMsg \/ HasClosed(e.msg)

RollbackFlag(e) ==
    IF e.cls = "InternalServerError" THEN e.sqlstate = "XX000"
    ELSE e.msg = ManualMsg

\* a test that never gives up
GiveUpMutant(retries) == FALSE

\* "if retries > 2: raise error"
GiveUp(retries) == retries > 2

\* start_transaction(txn) is called, retries = 0
StartCall(t) ==
    /\ engine = "ready"
    /\ pc[t] = "tid"
    /\ pc' = [pc EXCEPT ![t] = "starting"]
    /\ startCall' = [startCall EXCEPT ![t] =
          [retries |-> 0, attempts |-> 0, closes |-> 0, opens |-> 0,
           out |-> "running"]]
    /\ UNCHANGED <<dbVars, txn_tid, req, lastOp, hooks, hookLog, txn_deleted,
                   vacVars, poolVars, recVars, tidVars, initVars, blobVars, lockVars, sessVars, vacErrVars, stubVars>>

\* an attempt, txn._db_txn.start(), succeeds: the call returns
StartAttemptOk(t) ==
    /\ pc[t] = "starting"
    /\ pc' = [pc EXCEPT ![t] = "active"]
    /\ connOk' = [connOk EXCEPT ![t] = TRUE]
    /\ startCall' = [startCall EXCEPT ![t].attempts = @ + 1,
                                      ![t].out = "started"]
    /\ UNCHANGED <<dbVars, txn_tid, req, lastOp, hooks, hookLog, txn_deleted,
                   vacVars, engine, supports_unique, sinceInit, poolGen,
                   stmtGen, readConnOk, connLost, recVars, tidVars,
                   initVars, blobVars, lockVars, sessVars, vacErrVars, stubVars>>

\* an attempt fails with an interface or internal server error: the error
\* is raised when retries > 2; otherwise, on a restartable error, the
\* session is closed, a new one opened and the call made again with
\* retries + 1; on any other error the call returns without a backend
\* transaction.
StartAttemptFails(t) ==
    /\ pc[t] = "starting"
    /\ \E e \in StartErrors :
          LET c == startCall[t] IN
          IF GiveUp(c.retries)
          THEN /\ startCall' = [startCall EXCEPT ![t].attempts = @ + 1,
                                                 ![t].out = "raised"]
               /\ lastOp' = [lastOp EXCEPT ![t] =
                     [op |-> "start_transaction", raised |-> e.cls]]
               /\ pc' = [pc EXCEPT ![t] = "idle"]
          ELSE IF RestartFlag(e)
          THEN /\ startCall' = [startCall EXCEPT ![t].attempts = @ + 1,
                                                 ![t].closes = @ + 1,
                                                 ![t].opens = @ + 1,
                                                 ![t].retries = @ + 1]
               /\ UNCHANGED <<lastOp, pc>>
          ELSE /\ startCall' = [startCall EXCEPT ![t].attempts = @ + 1,
                                                 ![t].out = "returned"]
               /\ lastOp' = [lastOp EXCEPT ![t] =
                     [op |-> "start_transaction", raised |-> "none"]]
               /\ pc' = [pc EXCEPT ![t] = "idle"]
    /\ UNCHANGED <<dbVars, txn_tid, req, hooks, hookLog, txn_deleted,
                   vacVars, poolVars, recVars, tidVars, initVars, blobVars, lockVars, sessVars, vacErrVars, stubVars>>

\* ------------------------------------------------- the shared read session

\* "async with self._lock" is entered without waiting
StorageLockFreeMutant == TRUE

\* "async with self._lock" (lines 696, 706, 771): the lock is not held
StorageLockFree == storage_lock = NULL

\* the operations that run a statement on the shared read session
ReadOps == {"get_next_tid", "get_current_tid", "get_conflicts"}

\* where a transaction stands when it calls the operation
CallsFrom(op) == IF op = "get_conflicts" THEN "active" ELSE "idle"

\* where it stands when the operation has returned
ReturnsTo(op) == IF op = "get_conflicts" THEN "active"
                 ELSE IF op = "get_next_tid" THEN "tid" ELSE "idle"

\* get_conflicts checks on object ids below this many modified objects
OidsCheckLimit == 1000

\* txn.modified as get_conflicts meets it: the modified oids that are among
\* the model's, and how many more the transaction modified besides them
\* (objects it created, which have no committed row)
Modified == [known : SUBSET StoreOids,
             extra : {0, OidsCheckLimit - 2, OidsCheckLimit}]

\* len(txn.modified)
LenModified(m) == Cardinality(m.known) + m.extra

\* TXN_CONFLICTS: the committed rows with tid > $1, as (zoid, tid)
TXN_CONFLICTS(tid) ==
    {[zoid |-> o, tid |-> objects[o].tid] :
        o \in {z \in AllOids : IsRow(objects[z]) /\ objects[z].tid > tid}}

\* every committed row, whatever its tid
TXN_CONFLICTS_ON_OIDSMutant(tid, oids) ==
    {r \in TXN_CONFLICTS(-1) : r.zoid \in oids}

\* TXN_CONFLICTS_ON_OIDS: ... AND zoid = ANY($2)
TXN_CONFLICTS_ON_OIDS(tid, oids) ==
    {r \in TXN_CONFLICTS(tid) : r.zoid \in oids}

\* the statement get_conflicts fetches on the read session (lines 775-783)
ConflictsFetch(m, tid) ==
    IF LenModified(m) < OidsCheckLimit
    THEN TXN_CONFLICTS_ON_OIDS(tid, m.known)
    ELSE TXN_CONFLICTS(tid)

\* what the session operations leave alone
SessionRest ==
    UNCHANGED <<schema, objects, uncommitted, req, hooks, hookLog,
                txn_deleted, vacVars, engine, supports_unique, sinceInit,
                poolGen, stmtGen, connOk, readConnOk, connLost, pool,
                connection_options, startVars, initVars, blobVars, lockVars,
                replacing, vacErrVars, stubVars>>

\* get_conflicts(txn) of a transaction that modified nothing: the lock is
\* taken, [] returned and the lock left, the read session not touched
GetConflictsEmpty(t) ==
    /\ engine = "ready" /\ fpc # "done"
    /\ pc[t] = "active"
    /\ StorageLockFree
    /\ conflicts' = [conflicts EXCEPT ![t] =
          [called |-> TRUE, modified |-> [known |-> {}, extra |-> 0],
           tid |-> txn_tid[t], done |-> TRUE, rows |-> {},
           committed |-> TXN_CONFLICTS(-1)]]
    /\ SessionRest
    /\ UNCHANGED <<tid_sequence, pc, txn_tid, lastOp, storage_lock, tidVars,
                   readUse>>

\* get_next_tid, get_current_tid or get_conflicts enters the lock's block
\* and awaits its statement on the read session; the callers' operations
\* are drawn from Ops and what they have modified from M
ReadBeginOf(t, Ops, M) ==
    /\ engine = "ready" /\ fpc # "done"
    /\ StorageLockFree
    /\ \E op \in Ops :
          /\ pc[t] = CallsFrom(op)
          /\ op = "get_next_tid" => NextVal(tid_sequence) <= MaxTid
          /\ lastOp' = [lastOp EXCEPT ![t] = [op |-> op]]
          /\ IF op = "get_conflicts"
             THEN \E m \in M :
                     /\ LenModified(m) > 0
                     /\ conflicts' = [conflicts EXCEPT ![t] =
                           [called |-> TRUE, modified |-> m,
                            tid |-> txn_tid[t], done |-> FALSE, rows |-> {},
                            committed |-> {}]]
             ELSE UNCHANGED conflicts
    /\ storage_lock' = t
    /\ pc' = [pc EXCEPT ![t] = "reading"]
    /\ readUse' = readUse \cup {t}
    /\ SessionRest
    /\ UNCHANGED <<tid_sequence, txn_tid, tidVars>>

\* the callers of any of the three, one of them having modified the object A
ReadBegin(t) == ReadBeginOf(t, ReadOps, {[known |-> {"A"}, extra |-> 0]})

\* the callers of get_next_tid and get_conflicts, with all they may have
\* modified
ReadConflicts(t) ==
    ReadBeginOf(t, {"get_next_tid", "get_conflicts"}, Modified)

\* the statement returns its result and the lock's block is left
ReadEnd(t) ==
    /\ pc[t] = "reading"
    /\ readConnOk
    /\ lastOp[t].op # "get_conflicts" => stmtGen = poolGen
    /\ readUse' = readUse \ {t}
    /\ storage_lock' = NULL
    /\ pc' = [pc EXCEPT ![t] = ReturnsTo(lastOp[t].op)]
    /\ lastOp' = [lastOp EXCEPT ![t] = [op |-> @.op, raised |-> "none"]]
    /\ IF lastOp[t].op = "get_next_tid"
       THEN /\ tid_sequence' = [last_value |-> NextVal(tid_sequence),
                                is_called |-> TRUE]
            /\ txn_tid' = [txn_tid EXCEPT ![t] = NextVal(tid_sequence)]
            /\ tidRet' = Returned("next", NextVal(tid_sequence))
            /\ UNCHANGED conflicts
       ELSE IF lastOp[t].op = "get_current_tid"
       THEN /\ tidRet' = Returned("current", tid_sequence.last_value)
            /\ UNCHANGED <<tid_sequence, txn_tid, conflicts>>
       ELSE /\ conflicts' = [conflicts EXCEPT ![t] =
                  [called |-> TRUE, modified |-> conflicts[t].modified,
                   tid |-> conflicts[t].tid, done |-> TRUE,
                   rows |-> ConflictsFetch(conflicts[t].modified,
                                           conflicts[t].tid),
                   committed |-> TXN_CONFLICTS(-1)]]
            /\ UNCHANGED <<tid_sequence, txn_tid, tidVars>>
    /\ SessionRest

\* the statement raises an interface error (the session is closed, or its
\* statements were prepared on a session of the old pool): get_next_tid
\* hands it to _check_bad_connection, the lock still held; from the other
\* two it leaves the lock's block
ReadFails(t) ==
    /\ pc[t] = "reading"
    /\ ~readConnOk \/ (lastOp[t].op # "get_conflicts" /\ stmtGen # poolGen)
    /\ readUse' = readUse \ {t}
    /\ IF lastOp[t].op = "get_next_tid"
       THEN /\ pc' = [pc EXCEPT ![t] = "checking"]
            /\ lastOp' = [lastOp EXCEPT ![t] = [op |-> @.op, msg |-> ClosedMsg]]
            /\ UNCHANGED storage_lock
       ELSE /\ pc' = [pc EXCEPT ![t] = CallsFrom(lastOp[t].op)]
            /\ lastOp' = [lastOp EXCEPT ![t] =
                  [op |-> @.op, msg |-> ClosedMsg, raised |-> "InterfaceError"]]
            /\ storage_lock' = NULL
    /\ SessionRest
    /\ UNCHANGED <<tid_sequence, txn_tid, tidVars, conflicts>>

\* restart_connection, lines 466-471: the pool is closed and terminated,
\* and with it every session and its backend transaction
RestartClose(t) ==
    /\ pc[t] = "restarting"
    /\ pc' = [pc EXCEPT ![t] = "creating"]
    /\ replacing' = TRUE
    /\ readConnOk' = FALSE
    /\ connOk' = [u \in Txns |-> FALSE]
    /\ uncommitted' = [u \in Txns |-> NoWrites]
    /\ ublobs' = [u \in Txns |-> {}]
    /\ bdel' = [u \in Txns |-> {}]
    /\ UNCHANGED <<schema, objects, tid_sequence, txn_tid, req, lastOp, hooks,
                   hookLog, txn_deleted, vacVars, engine, supports_unique,
                   sinceInit, poolGen, stmtGen, connLost, recVars, tidVars,
                   startVars, initVars, blobs, lockVars, readUse, conflicts,
                   vacErrVars, stubVars>>

\* restart_connection, lines 473-479: create_pool returns and is bound
RestartCreate(t) ==
    /\ pc[t] = "creating"
    /\ pc' = [pc EXCEPT ![t] = "reopening"]
    /\ replacing' = FALSE
    /\ poolGen' = poolGen + 1
    /\ pool' = CreatePool(connection_options)
    /\ UNCHANGED <<dbVars, txn_tid, req, lastOp, hooks, hookLog, txn_deleted,
                   vacVars, engine, supports_unique, sinceInit, stmtGen,
                   connOk, readConnOk, connLost, storage_lock,
                   connection_options, tidVars, startVars, initVars, blobVars,
                   lockVars, readUse, conflicts, vacErrVars, stubVars>>

\* restart_connection, line 482: open() returns the new read session, and
\* initialize_tid_statements awaits prepare on it
RestartOpen(t) ==
    /\ pc[t] = "reopening"
    /\ pc' = [pc EXCEPT ![t] = "preparing"]
    /\ readConnOk' = TRUE
    /\ readUse' = readUse \cup {t}
    /\ UNCHANGED <<dbVars, txn_tid, req, lastOp, hooks, hookLog, txn_deleted,
                   vacVars, engine, supports_unique, sinceInit, poolGen,
                   stmtGen, connOk, connLost, recVars, tidVars, startVars,
                   initVars, blobVars, lockVars, replacing, conflicts,
                   vacErrVars, stubVars>>

\* restart_connection, line 482: pool.acquire raises an interface error in
\* open(), whose handler (line 585) asks for the storage lock
RestartOpenFails(t) ==
    /\ pc[t] = "reopening"
    /\ pc' = [pc EXCEPT ![t] = "lockwait"]
    /\ \E m \in Messages :
          lastOp' = [lastOp EXCEPT ![t] =
              [op |-> "open", msg |-> m, within |-> "restart_connection"]]
    /\ UNCHANGED <<dbVars, txn_tid, req, hooks, hookLog, txn_deleted, vacVars,
                   poolVars, auxVars>>

\* restart_connection, lines 483-485: the statements are prepared, the time
\* is recorded and ConflictError leaves the lock's block
RestartPrepared(t) ==
    /\ pc[t] = "preparing"
    /\ pc' = [pc EXCEPT ![t] = "idle"]
    /\ stmtGen' = poolGen
    /\ sinceInit' = 0
    /\ readUse' = readUse \ {t}
    /\ storage_lock' = NULL
    /\ lastOp' = [lastOp EXCEPT ![t] =
          [op |-> "restart_connection", msg |-> lastOp[t].msg,
           gap |-> lastOp[t].gap, locked |-> lastOp[t].locked,
           raised |-> "ConflictError"]]
    /\ UNCHANGED <<dbVars, txn_tid, req, hooks, hookLog, txn_deleted, vacVars,
                   engine, supports_unique, poolGen, connOk, readConnOk,
                   connLost, pool, connection_options, tidVars, startVars,
                   initVars, blobVars, lockVars, replacing, conflicts,
                   vacErrVars, stubVars>>

\* ------------------------------------------------- the vacuum's failures

\* what storage.open() raises to vacuum(oid): ConflictError after a restart
\* of the pool, or what pool.acquire raised that is no interface error
OpenErrors == {"ConflictError", "TimeoutError", "RuntimeError"}

\* what conn.execute may raise
ExecuteErrors == {"DeadlockDetectedError", "InterfaceError", "RuntimeError"}

\* what pool.release may raise in storage.close
ReleaseErrors == {"InterfaceError", "RuntimeError", "TimeoutError",
                  "ConnectionDoesNotExistError"}

\* storage.close passes over the error (lines 591-593)
CloseSwallows(e) ==
    e \in {"CancelledError", "RuntimeError", "TimeoutError",
           "ConnectionDoesNotExistError"}

\* the loop logs every error
ReraisedMutant(e) == FALSE

\* the loop raises the error again instead of logging it (lines 307-308)
Reraised(e) == e \in {"CancelledError", "RuntimeError"}

\* what the steps of vacuum(oid) leave alone
VacuumRest ==
    UNCHANGED <<schema, tid_sequence, uncommitted, txnVars, queue, closed,
                fpc, delCommitted, joinWaited, poolVars, recVars, tidVars,
                startVars, initVars, ublobs, bdel, lockVars, sessVars,
                stubVars>>

\* An error e leaves vacuum(oid), whose steps went as in sofar, and reaches
\* the loop (lines 307-316): it is raised again, which ends _initialize
\* and, in initialize, the task, or it is logged; either way the finally
\* block resets _active and calls task_done.
BodyRaises(sofar, stage, e) ==
    /\ vlast' = [oid |-> active,
                 failed |-> sofar.failed \cup {stage},
                 errors |-> sofar.errors \cup {e},
                 logged |-> IF Reraised(e) THEN sofar.logged
                            ELSE sofar.logged + 1]
    /\ active' = NULL
    /\ unfinished' = unfinished - 1
    /\ vpc' = IF Reraised(e) THEN "done" ELSE LoopCheck

\* vacuum(oid), line 327: storage.open() returns a session, returns None
\* (an interface error that led to no restart, lines 584-586) or raises
VacuumOpen ==
    /\ vpc = "vacuum"
    /\ \/ /\ \E c \in {"session", "None"} : vconn' = c
          /\ vlast' = [NoVacuum EXCEPT !.oid = active]
          /\ vpc' = "opened"
          /\ UNCHANGED <<active, unfinished>>
       \/ /\ \E e \in OpenErrors : BodyRaises(NoVacuum, "open", e)
          /\ UNCHANGED vconn
    /\ UNCHANGED <<objects, blobs>>
    /\ VacuumRest

\* vacuum(oid), lines 330-333: DELETE_OBJECT is executed; whatever it
\* raises (also the AttributeError of None) is logged by vacuum itself
VacuumExecute ==
    /\ vpc = "opened"
    /\ \/ /\ vconn = "session"
          /\ DeleteWaits(active) = {}
          /\ objects' = DELETE_OBJECT(active)
          /\ blobs' = IF IsRow(objects[active])
                      THEN blobs \ BlobsOf(Cascade({active})) ELSE blobs
          /\ UNCHANGED vlast
       \/ /\ \E e \in IF vconn = "session" THEN ExecuteErrors
                      ELSE {"AttributeError"} :
                vlast' = [vlast EXCEPT !.failed = @ \cup {"execute"},
                                       !.errors = @ \cup {e},
                                       !.logged = @ + 1]
          /\ UNCHANGED <<objects, blobs>>
    /\ vpc' = "closing"
    /\ UNCHANGED <<active, unfinished, vconn>>
    /\ VacuumRest

\* vacuum(oid), lines 334-338, and the end of the loop's body: conn is
\* handed to storage.close, which releases it to the pool; the error of the
\* release is passed over by close or leaves vacuum and reaches the loop.
VacuumClose ==
    /\ vpc = "closing"
    /\ vconn' = "unset"
    /\ \/ /\ UNCHANGED vlast
          /\ active' = NULL
          /\ unfinished' = unfinished - 1
          /\ vpc' = LoopCheck
       \/ \E e \in ReleaseErrors :
             IF CloseSwallows(e)
             THEN /\ vlast' = [vlast EXCEPT !.failed = @ \cup {"close"},
                                            !.errors = @ \cup {e}]
                  /\ active' = NULL
                  /\ unfinished' = unfinished - 1
                  /\ vpc' = LoopCheck
             ELSE BodyRaises(vlast, "close", e)
    /\ UNCHANGED <<objects, blobs>>
    /\ VacuumRest

\* ------------------------------------------ write_blob_chunk, step by step

\* the chunk index each of the two concurrent callers writes
CallIndex(c) == IF c = "c1" THEN 0 ELSE 1

\* the call of caller c belongs to the transaction t is in
CallUnderWay(t, c) ==
    /\ engine = "ready"
    /\ pc[t] = "active" /\ connOk[t]
    /\ wcall[t][c].at \notin {"none", "done"}
    /\ wcall[t][c].tid = txn_tid[t]

\* what the steps of write_blob_chunk leave alone
StubRest ==
    UNCHANGED <<schema, objects, tid_sequence, txn_tid, req, lastOp, hooks,
                hookLog, txn_deleted, vacVars, poolVars, recVars, tidVars,
                startVars, initVars, blobs, bdel, lockVars, sessVars,
                vacErrVars>>

\* a statement of the call raises: the error leaves write_blob_chunk and
\* the backend transaction is aborted
CallRaises(t, c, e) ==
    /\ wcall' = [wcall EXCEPT ![t][c].at = "done", ![t][c].err = e]
    /\ pc' = [pc EXCEPT ![t] = "error"]
    /\ UNCHANGED <<uncommitted, ublobs>>

\* HAS_OBJECT on the transaction's session (lines 879-881)
HasObject(t, oid) == IsRow(Visible(t, oid))

\* write_blob_chunk(txn, bid, oid, chunk_index, data), lines 879-881: the
\* first block under txn._lock, get_one_row with HAS_OBJECT
WriteCheck(t, c) ==
    /\ engine = "ready"
    /\ pc[t] = "active" /\ connOk[t]
    /\ wcall[t][c].at = "none"
    /\ \E oid \in BlobOids :
          wcall' = [wcall EXCEPT ![t][c] =
              [at |-> "checked", err |-> "none", tid |-> txn_tid[t],
               oid |-> oid, result |-> HasObject(t, oid)]]
    /\ UNCHANGED <<uncommitted, pc, ublobs>>
    /\ StubRest

\* lines 882-889: result is None, the stub is inserted in a second block
\* under txn._lock. The INSERT waits for an uncommitted insert of the same
\* zoid by another transaction and raises UniqueViolationError when the
\* primary key is taken.
WriteStub(t, c) ==
    /\ CallUnderWay(t, c)
    /\ wcall[t][c].at = "checked" /\ ~wcall[t][c].result
    /\ LET oid == wcall[t][c].oid IN
       /\ \A u \in Txns \ {t} :
             ~(~IsRow(objects[oid]) /\ IsRow(uncommitted[u][oid]))
       /\ IF IsRow(Visible(t, oid))
          THEN CallRaises(t, c, "UniqueViolationError")
          ELSE /\ uncommitted' = [uncommitted EXCEPT ![t][oid] = StubRow]
               /\ wcall' = [wcall EXCEPT ![t][c].at = "stubbed"]
               /\ UNCHANGED <<pc, ublobs>>
    /\ StubRest

\* lines 890-894: INSERT_BLOB_CHUNK in a third block under txn._lock
WriteChunk(t, c) ==
    /\ CallUnderWay(t, c)
    /\ \/ wcall[t][c].at = "stubbed"
       \/ wcall[t][c].at = "checked" /\ wcall[t][c].result
    /\ LET row == ChunkRow("b1", wcall[t][c].oid, CallIndex(c), "x") IN
       /\ \A u \in Txns \ {t} :
             ~\E r \in ublobs[u] \cup bdel[u] : SameChunkKey(r, row)
       /\ IF \E r \in VisibleBlobs(t) : SameChunkKey(r, row)
          THEN CallRaises(t, c, "UniqueViolationError")
          ELSE IF ~IsRow(Visible(t, row.zoid))
          THEN CallRaises(t, c, "ForeignKeyViolationError")
          ELSE /\ ublobs' = [ublobs EXCEPT ![t] = @ \cup {row}]
               /\ wcall' = [wcall EXCEPT ![t][c].at = "done"]
               /\ UNCHANGED <<uncommitted, pc>>
    /\ StubRest

\* ------------------------------------------------------ the specifications

\* the transactions' calls: tids, stores, commits and aborts
StoreNext ==
    \/ Initialize
    \/ \E t \in Txns : GetNextTid(t)
    \/ \E t \in Txns : StartTransaction(t)
    \/ \E t \in Txns : Store(t)
    \/ \E t \in Txns : Resume(t)
    \/ \E t \in Txns : Deadlock(t)
    \/ \E t \in Txns : Commit(t)
    \/ \E t \in Txns : Abort(t)
    \/ \E t \in Txns : TxnDone(t)

SpecStore == Init /\ [][StoreNext]_vars

\* the vacuum task
VacuumSteps == VacuumScan \/ VacuumScanned \/ VacuumGet \/ VacuumDelete

\* creation and deletion of objects with the vacuum task running
ObjectsNext ==
    \/ Initialize
    \/ \E t \in Txns : GetNextTid(t)
    \/ \E t \in Txns : StartTransaction(t)
    \/ \E t \in Txns : StoreNew(t)
    \/ \E t \in Txns : Delete(t)
    \/ \E t \in Txns : Resume(t)
    \/ \E t \in Txns : Deadlock(t)
    \/ \E t \in Txns : Commit(t)
    \/ \E t \in Txns : Abort(t)
    \/ \E t \in Txns : RunHook(t)
    \/ \E t \in Txns : TxnDone(t)
    \/ VacuumScan
    \/ VacuumScanned
    \/ VacuumGet
    \/ VacuumDelete
    \/ VacuumDeleteBlocked
    \/ VacuumDeadlock

SpecObjects == Init /\ [][ObjectsNext]_vars

\* The event loop runs every task that can run: the vacuum task, the hooks
\* of a committed transaction and a statement that no longer waits go on,
\* the backend ends a deadlock, and every request ends its transaction
\* (commit or abort).
Fairness ==
    /\ WF_vars(Initialize)
    /\ WF_vars(VacuumSteps)
    /\ \A t \in Txns : /\ WF_vars(RunHook(t))
                        /\ WF_vars(Resume(t))
                        /\ WF_vars(Deadlock(t))
                        /\ WF_vars(Commit(t) \/ Abort(t))

SpecObjectsFair == SpecObjects /\ Fairness

\* deletion of objects, the vacuum task and the shutdown
VacuumNext ==
    \/ Initialize
    \/ \E t \in Txns : GetNextTid(t)
    \/ \E t \in Txns : StartTransaction(t)
    \/ \E t \in Txns : Delete(t)
    \/ \E t \in Txns : Resume(t)
    \/ \E t \in Txns : Commit(t)
    \/ \E t \in Txns : Abort(t)
    \/ \E t \in Txns : RunHook(t)
    \/ \E t \in Txns : TxnDone(t)
    \/ VacuumScan
    \/ VacuumScanned
    \/ VacuumGet
    \/ VacuumDelete
    \/ VacuumDeleteBlocked
    \/ FinalizeBegin
    \/ FinalizeEnd

SpecVacuum == Init /\ [][VacuumNext]_vars

\* broken sessions and the recovery of the pool
RestartNext ==
    \/ Initialize
    \/ \E t \in Txns : GetNextTid(t)
    \/ \E t \in Txns : GetNextTidFails(t)
    \/ \E t \in Txns : StartTransaction(t)
    \/ \E t \in Txns : StoreNew(t)
    \/ \E t \in Txns : Resume(t)
    \/ \E t \in Txns : Commit(t)
    \/ \E t \in Txns : Abort(t)
    \/ \E t \in Txns : TxnDone(t)
    \/ \E t \in Txns : ConnLost(t)
    \/ ReadConnLost
    \/ Tick

SpecRestart == Init /\ [][RestartNext]_vars

\* interface errors met by concurrent callers, and the restarts of the pool
RecoveryNext ==
    \/ InitializeKw
    \/ \E t \in Txns : GetNextTid(t)
    \/ \E t \in Txns : StartTransaction(t)
    \/ \E t \in Txns : StoreNew(t)
    \/ \E t \in Txns : Abort(t)
    \/ \E t \in Txns : InterfaceErrorSeen(t)
    \/ \E t \in Txns : LockAcquired(t)
    \/ \E t \in Txns : GetNextTidError(t)
    \/ \E t \in Txns : CheckConnection(t)
    \/ \E t \in Txns : RestartDone(t)
    \/ Tick

SpecRecovery == Init /\ [][RecoveryNext]_vars

\* the TID calls of concurrent transactions
TidNext ==
    \/ Initialize
    \/ GetCurrentTid
    \/ \E t \in Txns : GetNextTid(t)
    \/ \E t \in Txns : StartTransaction(t)
    \/ \E t \in Txns : StoreNew(t)
    \/ \E t \in Txns : Commit(t)
    \/ \E t \in Txns : Abort(t)

SpecTid == Init /\ [][TidNext]_vars

\* initialize of several storage objects on one database
InitNext ==
    \/ \E i \in Initializers : InitPrepare(i)
    \/ \E i \in Initializers : InitCreateTables(i)
    \/ \E i \in Initializers : InitCreateSequence(i)
    \/ \E i \in Initializers : InitAddConstraint(i)
    \/ \E i \in Initializers : InitTrashSelect(i)
    \/ \E i \in Initializers : InitTrashInsert(i)

SpecInit == Init /\ [][InitNext]_vars

\* the blob operations of concurrent transactions
BlobNext ==
    \/ Initialize
    \/ \E t \in Txns : GetNextTid(t)
    \/ \E t \in Txns : StartTransaction(t)
    \/ \E t \in Txns : WriteBlobChunk(t)
    \/ \E t \in Txns : ReadBlobChunk(t)
    \/ \E t \in Txns : ReadBlobChunks(t)
    \/ \E t \in Txns : DelBlob(t)
    \/ \E t \in Txns : Commit(t)
    \/ \E t \in Txns : Abort(t)
    \/ \E t \in Txns : TxnDone(t)

SpecBlobs == Init /\ [][BlobNext]_vars

\* blob chunks beside stores, deletes and the vacuum
CascadeNext ==
    \/ ObjectsNext
    \/ \E t \in Txns : WriteOneBlob(t)

SpecCascade == Init /\ [][CascadeNext]_vars

\* the queries of the coroutines that share a transaction
LockNext ==
    \/ Initialize
    \/ \E t \in Txns : GetNextTid(t)
    \/ \E t \in Txns : StartTransaction(t)
    \/ \E t \in Txns, c \in Callers : QueryBegin(t, c)
    \/ \E t \in Txns, c \in Callers : QueryEnd(t, c)

SpecLock == Init /\ [][LockNext]_vars

\* start_transaction and its retries
StartAttempt(t) == StartAttemptOk(t) \/ StartAttemptFails(t)

StartNext ==
    \/ Initialize
    \/ \E t \in Txns : GetNextTid(t)
    \/ \E t \in Txns : StartCall(t)
    \/ \E t \in Txns : StartAttempt(t)
    \/ \E t \in Txns : StoreNew(t)
    \/ \E t \in Txns : Abort(t)

\* an awaited start() gets its answer from the backend
SpecStart ==
    Init /\ [][StartNext]_vars /\ \A t \in Txns : WF_vars(StartAttempt(t))

\* the operations of the shared read session, the recovery of the pool
\* step by step, and the shutdown
SessionNext ==
    \/ Initialize
    \/ \E t \in Txns : ReadBegin(t)
    \/ \E t \in Txns : ReadEnd(t)
    \/ \E t \in Txns : ReadFails(t)
    \/ \E t \in Txns : StartTransaction(t)
    \/ \E t \in Txns : Abort(t)
    \/ \E t \in Txns : InterfaceErrorSeen(t)
    \/ \E t \in Txns : LockAcquired(t)
    \/ \E t \in Txns : CheckConnection(t)
    \/ \E t \in Txns : RestartClose(t)
    \/ \E t \in Txns : RestartCreate(t)
    \/ \E t \in Txns : RestartOpen(t)
    \/ \E t \in Txns : RestartOpenFails(t)
    \/ \E t \in Txns : RestartPrepared(t)
    \/ ReadConnLost
    \/ FinalizeBegin
    \/ Tick

SpecSession == Init /\ [][SessionNext]_vars

\* transactions that store, look for conflicts and commit
ConflictsNext ==
    \/ Initialize
    \/ \E t \in Txns : ReadConflicts(t)
    \/ \E t \in Txns : ReadEnd(t)
    \/ \E t \in Txns : GetConflictsEmpty(t)
    \/ \E t \in Txns : StartTransaction(t)
    \/ \E t \in Txns : StoreNew(t)
    \/ \E t \in Txns : Commit(t)
    \/ \E t \in Txns : TxnDone(t)

SpecConflicts == Init /\ [][ConflictsNext]_vars

\* deletions, the vacuum task with its failures, and the shutdown
VacuumErrNext ==
    \/ Initialize
    \/ \E t \in Txns : GetNextTid(t)
    \/ \E t \in Txns : StartTransaction(t)
    \/ \E t \in Txns : Delete(t)
    \/ \E t \in Txns : Resume(t)
    \/ \E t \in Txns : Commit(t)
    \/ \E t \in Txns : RunHook(t)
    \/ \E t \in Txns : TxnDone(t)
    \/ VacuumScan
    \/ VacuumScanned
    \/ VacuumGet
    \/ VacuumOpen
    \/ VacuumExecute
    \/ VacuumClose
    \/ FinalizeBegin
    \/ FinalizeEnd

SpecVacuumErr == Init /\ [][VacuumErrNext]_vars

\* The event loop runs every task that can go on: the vacuum task, the
\* finalize call when join can return, the hooks of a committed
\* transaction, a statement whose wait is over; a transaction under way
\* commits.
VacuumFairness ==
    /\ WF_vars(VacuumSteps)
    /\ WF_vars(FinalizeEnd)
    /\ \A t \in Txns : /\ WF_vars(RunHook(t))
                        /\ WF_vars(Resume(t))
                        /\ WF_vars(Commit(t))

SpecVacuumFair == SpecVacuum /\ VacuumFairness

\* concurrent write_blob_chunk calls of one and of two transactions
StubNext ==
    \/ Initialize
    \/ \E t \in Txns : GetNextTid(t)
    \/ \E t \in Txns : StartTransaction(t)
    \/ \E t \in Txns, c \in Callers : WriteCheck(t, c)
    \/ \E t \in Txns, c \in Callers : WriteStub(t, c)
    \/ \E t \in Txns, c \in Callers : WriteChunk(t, c)
    \/ \E t \in Txns : Commit(t)
    \/ \E t \in Txns : Abort(t)
    \/ \E t \in Txns : TxnDone(t)

SpecStub == Init /\ [][StubNext]_vars

Next == StoreNext \/ ObjectsNext \/ VacuumNext \/ RestartNext \/ RecoveryNext
        \/ TidNext \/ StartNext \/ InitNext \/ BlobNext \/ CascadeNext
        \/ LockNext \/ SessionNext \/ ConflictsNext
        \/ VacuumErrNext \/ StubNext

Spec == Init /\ [][Next]_vars

\* ------------------------------------------------------------- the properties

\* the stores the handles t and u last made
IsStore(t) == lastOp[t].op = "store"

\* a store on the tid-guarded UPDATE path whose statement ran without a
\* database error
CleanUpdate(t) == IsStore(t) /\ lastOp[t].update /\ lastOp[t].err = "none"

\* the transaction of t has committed (an abort clears lastOp)
HasCommitted(t) == pc[t] \in {"committed", "idle"} /\ lastOp[t].op # "none"

\* C1 as stated: for an oid whose row exists, ANY store with prior tid T
\* succeeds if and only if the row's tid is T when the write executes, and
\* otherwise raises TIDConflict and writes nothing. NAIVE_UPSERT has no tid
\* guard, so a store with the new marker or without a prior serial overwrites
\* a row of any tid; a matching update may also end in another error.
C1_AnyStatement ==
    \A t \in Txns :
        (IsStore(t) /\ lastOp[t].seen # {}) =>
            /\ (lastOp[t].raised = "none") <=> (lastOp[t].seen = lastOp[t].otid)
            /\ lastOp[t].raised # "none" =>
                  (lastOp[t].raised = "TIDConflictError" /\ ~lastOp[t].wrote)

\* C1, amended: for an oid whose row exists, a store on the UPDATE path (no
\* new marker, prior serial T) whose statement meets no database error
\* succeeds, the row's tid in the transaction becoming the transaction's tid,
\* if and only if the row's tid equals T when the write executes; otherwise
\* it raises TIDConflict and the row is unchanged. A store on the
\* NAIVE_UPSERT path that meets no database error succeeds whatever the tid.
C1_OptimisticUpdate ==
    \A t \in Txns :
        /\ (CleanUpdate(t) /\ lastOp[t].seen # {}) =>
              /\ (lastOp[t].raised = "none") <=> (lastOp[t].seen = lastOp[t].otid)
              /\ lastOp[t].raised = "none" =>
                    /\ lastOp[t].wrote
                    /\ (pc[t] = "active" /\ connOk[t]) =>
                          /\ IsRow(uncommitted[t][lastOp[t].oid])
                          /\ uncommitted[t][lastOp[t].oid].tid = txn_tid[t]
              /\ lastOp[t].raised # "none" =>
                    (lastOp[t].raised = "TIDConflictError" /\ ~lastOp[t].wrote)
        /\ (IsStore(t) /\ ~lastOp[t].update /\ lastOp[t].err = "none") =>
              (lastOp[t].raised = "none" /\ lastOp[t].wrote)

\* a state where one update matched the row's tid and another one, with a
\* stale prior tid on an existing row, raised TIDConflict
C1_Witness ==
    \E t, u \in Txns :
        /\ CleanUpdate(t) /\ lastOp[t].seen # {}
        /\ lastOp[t].seen = lastOp[t].otid /\ lastOp[t].raised = "none"
        /\ CleanUpdate(u) /\ lastOp[u].seen # {}
        /\ lastOp[u].seen # lastOp[u].otid
        /\ lastOp[u].raised = "TIDConflictError"

\* two updates of one oid with one prior tid, neither rolled back, the row
\* carrying that tid when the first of them executed
SameUpdate(t, u) ==
    /\ t # u
    /\ CleanUpdate(t) /\ CleanUpdate(u)
    /\ lastOp[t].oid = lastOp[u].oid
    /\ lastOp[t].otid = lastOp[u].otid
    /\ lastOp[t].seen = lastOp[t].otid \/ lastOp[u].seen = lastOp[u].otid

\* C2: of two transactions that update the same oid with the same prior tid
\* (the row's tid), in every interleaving of their stores and commits
\* exactly one succeeds and the other raises TIDConflict; once the winner
\* has committed the row carries the winner's tid and state (until a third
\* transaction, with another tid, writes it), never the loser's.
C2_ExactlyOneWins ==
    \A t, u \in Txns :
        SameUpdate(t, u) =>
            /\ (lastOp[t].raised = "none") # (lastOp[u].raised = "none")
            /\ lastOp[t].raised \in {"none", "TIDConflictError"}
            /\ lastOp[u].raised \in {"none", "TIDConflictError"}
            /\ (lastOp[t].raised = "none" /\ HasCommitted(t)) =>
                  /\ IsRow(objects[lastOp[t].oid])
                  /\ objects[lastOp[t].oid].tid # txn_tid[u]
                  /\ objects[lastOp[t].oid].tid \in {txn_tid[t], txn_tid[u]} =>
                        /\ objects[lastOp[t].oid].tid = txn_tid[t]
                        /\ objects[lastOp[t].oid].state = {txn_tid[t]}

\* a state where the winner has committed and the loser, which stored with
\* the same prior tid, has been refused
C2_Witness ==
    \E t, u \in Txns :
        /\ SameUpdate(t, u)
        /\ lastOp[t].raised = "none" /\ HasCommitted(t)
        /\ lastOp[u].raised = "TIDConflictError"
        /\ objects[lastOp[t].oid].tid = txn_tid[t]

\* C3 as stated: the committed tids of an oid strictly increase. The storage
\* compares tids for equality only (UPDATE) or not at all (NAIVE_UPSERT): a
\* transaction with a smaller tid can commit over a row written by a
\* transaction with a larger one.
C3_TidMonotonic ==
    [][\A o \in OIDs :
          (IsRow(objects[o]) /\ IsRow(objects'[o]) /\ objects'[o] # objects[o])
              => objects'[o].tid > objects[o].tid]_vars

\* no two rows with the same (parent_id, id), id not null
UniqueSiblings ==
    \A o1, o2 \in AllOids :
        (o1 # o2 /\ IsRow(objects[o1]) /\ IsRow(objects[o2])
           /\ Key(objects[o1]) # {})
            => Key(objects[o1]) # Key(objects[o2])

\* C4 as stated: sibling names are unique in every reachable state. A
\* database created before the constraint existed has none (initialize adds
\* it to a new table only), and there two children of one parent can be
\* committed under one id.
C4_AlwaysUnique == UniqueSiblings

\* C4, amended: in every reachable state of a storage that reports
\* _supports_unique_constraints (the constraint is installed), no two rows
\* have the same parent_id and the same non-null id.
C4_UniqueWhenSupported == supports_unique => UniqueSiblings

\* a state of a storage with the constraint where a store of a second child
\* under a taken name has been refused and both rows exist
C4_Witness ==
    /\ supports_unique
    /\ IsRow(objects["A"]) /\ IsRow(objects["B"])
    /\ \E t \in Txns : IsStore(t) /\ lastOp[t].err = "UniqueViolationError"

\* C5: with the constraint installed, a store that would write a second row
\* with the (parent_id, id) of an existing row of another oid raises
\* ConflictIdOnContainer, writes nothing and does not notify the cache.
C5_ConflictIdOnContainer ==
    \A t \in Txns :
        IsStore(t) =>
            /\ (lastOp[t].dup /\ HasConstraint) =>
                  lastOp[t].err = "UniqueViolationError"
            /\ lastOp[t].err = "UniqueViolationError" =>
                  /\ lastOp[t].raised = "ConflictIdOnContainer"
                  /\ ~lastOp[t].wrote
                  /\ ~lastOp[t].cached
                  /\ uncommitted[t][lastOp[t].oid] = NoWrite

\* a state where a store of a row with a taken (parent_id, id) was refused
C5_Witness ==
    \E t \in Txns :
        /\ IsStore(t) /\ lastOp[t].dup /\ HasConstraint
        /\ lastOp[t].raised = "ConflictIdOnContainer"

\* the oids of the after-commit hooks t has still to run
Hooked(t) == {hooks[t][i] : i \in 1 .. Len(hooks[t])}

\* the oids on the vacuum's queue or in the vacuum's hands
InVacuum == {queue[i] : i \in 1 .. Len(queue)} \cup ({active} \ {NULL})

\* C6 as stated: once a transaction that called delete(oid) has committed
\* with the vacuum running, the row of oid is eventually absent (load raises
\* KeyError), the event loop and the backend being fair. The vacuum drops an
\* oid whose DELETE the backend ends with an error, and nothing puts it on
\* the queue again: the row stays.
C6_TrashReachability ==
    \A o \in OIDs :
        (~closed /\ \E t \in Txns : pc[t] = "committed" /\ o \in Hooked(t))
            ~> (~IsRow(objects[o]) /\ \E t \in Txns : Load(t, o) = KeyError)

\* C7: an oid reaches the vacuum (its queue, its DELETE) only once a
\* transaction that called delete(oid) has committed: neither the hook nor
\* the scan of the trashed rows passes on the oid of an uncommitted delete.
\* A rollback leaves the row with the parent_id it had, and the hook of the
\* rolled-back delete is never run.
C7_DeleteAfterCommit ==
    /\ InVacuum \subseteq delCommitted
    /\ \A t \in Txns : hookLog[t] = "enqueued" => pc[t] = "committed"
    /\ \A t \in Txns : pc[t] = "idle" => hooks[t] = <<>>
    /\ \A o \in OIDs :
          (IsRow(objects[o]) /\ objects[o].parent_id = TRASHED_ID)
              => o \in delCommitted

\* a state where one delete has committed and reached the vacuum while the
\* delete of another row is uncommitted
C7_Witness ==
    /\ InVacuum # {}
    /\ \E t \in Txns, o \in OIDs \ InVacuum :
          /\ IsRow(uncommitted[t][o])
          /\ uncommitted[t][o].parent_id = TRASHED_ID
          /\ o \notin delCommitted

\* C8: when finalize has returned nothing that was put on the queue is left
\* unprocessed (the queue is empty, no oid is in the vacuum's hands, every
\* put has had its task_done), and the task is cancelled only then.
C8_FinalizeDrains ==
    /\ fpc = "done" => (queue = <<>> /\ active = NULL /\ unfinished = 0)
    /\ vpc = "cancelled" => fpc = "done"
    /\ unfinished = Len(queue) + (IF active = NULL THEN 0 ELSE 1)

\* a state where finalize has returned after join had to wait for the vacuum
C8_Witness == fpc = "done" /\ joinWaited /\ delCommitted # {}

\* C9: once _closed is set, add_to_queue raises and leaves the queue as it
\* is: the after-commit hook of a delete that runs after the close does not
\* enqueue its oid.
C9_ClosedRejects ==
    [][\A t \in Txns :
          (closed /\ pc[t] = "committed" /\ hooks'[t] # hooks[t])
              => (hookLog'[t] = "raised" /\ queue' = queue
                  /\ unfinished' = unfinished)]_vars

\* a state where the hook of a committed delete has run after the close
C9_Witness == \E t \in Txns : closed /\ hookLog[t] = "raised"

\* C10 as stated: a store that meets "connection is closed" more than
\* BAD_CONNECTION_RESTART_DELAY after the pool's last init restarts the pool
\* and raises Conflict. store re-raises the interface error (lines 655-660)
\* and never calls _check_bad_connection: the pool stays as it is.
C10_StoreRestartsPool ==
    \A t \in Txns :
        (IsStore(t) /\ lastOp[t].err = ClosedMsg /\ lastOp[t].late)
            => lastOp[t].raised = "ConflictError"

\* the handles inside restart_connection
Restarting == {t \in Txns : pc[t] = "restarting"}

\* C11 as stated: a restart_connection that completes makes a pool like the
\* one it ended (same DSN, size and connection options), reopens the read
\* session, prepares the TID statements on it, records the time, raises
\* Conflict and leaves the database as it was. initialize keeps its keyword
\* arguments as _connection_options but makes the first pool without them
\* (get_pool(loop)); restart_connection makes the next pool with them.
C11_RestartOutcome ==
    [][(poolGen >= 1 /\ poolGen' = poolGen + 1) =>
          /\ pool' = pool
          /\ readConnOk' /\ stmtGen' = poolGen' /\ sinceInit' = 0
          /\ \E t \in Restarting :
                pc'[t] = "idle" /\ lastOp'[t].raised = "ConflictError"
          /\ schema' = schema /\ objects' = objects
          /\ tid_sequence' = tid_sequence]_vars

C13_TidSequence ==
    /\ tidRet.op = "current" => tid_sequence = tidRet.seq
    /\ tidRet.op = "next" => tidRet.val > tidRet.prev

C15_TrashRow ==
    /\ \A i \in Initializers : initializer[i].pc # "failed"
    /\ (\E i \in Initializers : initializer[i].pc = "done") =>
          objects[TRASHED_ID] = TrashRow

\* a write_blob_chunk of t completes in this step
BlobWritten(t) ==
    /\ lastOp'[t] # lastOp[t]
    /\ lastOp'[t].op = "write_blob_chunk"
    /\ lastOp'[t].err = "none"

\* the step of a completed write_blob_chunk: the chunk is inserted; without
\* an object row for the oid a stub row (tid -1, type 'stub') is inserted,
\* with one the object row is left as it is
StubOrUnchanged ==
    \A t \in Txns :
        BlobWritten(t) =>
            LET w == lastOp'[t] IN
            /\ ChunkRow(w.bid, w.oid, w.index, w.data) \in ublobs'[t]
            /\ IF IsRow(Visible(t, w.oid))
               THEN /\ uncommitted'[t][w.oid] = uncommitted[t][w.oid]
                    /\ objects' = objects
               ELSE /\ IsRow(uncommitted'[t][w.oid])
                    /\ uncommitted'[t][w.oid].tid = -1
                    /\ uncommitted'[t][w.oid].type = "stub"

\* a read_blob_chunk(bid, index) made by t right after its completed
\* write_blob_chunk of that bid and index
ReadAfterWrite(t) ==
    /\ lastOp[t].op = "read_blob_chunk"
    /\ lastOp[t].after.op = "write_blob_chunk"
    /\ lastOp[t].after.err = "none"

\* C16 as stated: write_blob_chunk inserts a stub row when the oid has no
\* row and leaves the row alone otherwise, and read_blob_chunk(bid, index)
\* afterwards in the same transaction returns exactly the data written.
C16_RoundTrip ==
    /\ [][StubOrUnchanged]_vars
    /\ [](\A t \in Txns :
            ReadAfterWrite(t) => lastOp[t].result = {lastOp[t].after.data})

\* C16, amended: as above, the read returning the data written when no
\* other chunk row with that bid and index (one stored for another oid) is
\* visible to the transaction.
C16_RoundTripOneOid ==
    /\ [][StubOrUnchanged]_vars
    /\ [](\A t \in Txns :
            (ReadAfterWrite(t) /\ lastOp[t].matched = 1) =>
                lastOp[t].result = {lastOp[t].after.data})

\* a chunk written for an oid without a row, the stub in the transaction,
\* and read back
C16_Witness ==
    \E t \in Txns :
        /\ ReadAfterWrite(t) /\ lastOp[t].matched = 1
        /\ ~lastOp[t].after.had
        /\ uncommitted[t][lastOp[t].after.oid] = StubRow
        /\ lastOp[t].result = {lastOp[t].after.data}

\* C17 as stated: read_blob_chunks(bid) yields exactly the chunk rows of
\* the bid, in increasing order of chunk_index.
C17_ChunksInOrder ==
    [][\A t \in Txns :
         (lastOp'[t] # lastOp[t] /\ lastOp'[t].op = "read_blob_chunks") =>
            LET y == lastOp'[t].yielded
                rows == {r \in VisibleBlobs(t) : r.bid = lastOp'[t].bid}
            IN  /\ lastOp'[t].raised = "none"
                /\ Len(y) = Cardinality(rows)
                /\ {y[i] : i \in 1 .. Len(y)} = rows
                /\ \A i, j \in 1 .. Len(y) :
                      i < j => y[i].chunk_index < y[j].chunk_index]_vars

\* C18: a store whose statement fails with a foreign-key violation records
\* the object under its oid in the transaction's deleted map and raises
\* TIDConflict; it writes no row and does not notify the cache.
C18_ForeignKeyConflict ==
    \A t \in Txns :
        (IsStore(t) /\ lastOp[t].err = "ForeignKeyViolationError") =>
            /\ lastOp[t].raised = "TIDConflictError"
            /\ lastOp[t].oid \in txn_deleted[t]
            /\ ~lastOp[t].wrote
            /\ ~lastOp[t].cached
            /\ uncommitted[t][lastOp[t].oid] = NoWrite

\* a store refused because the container P of the existing database, which
\* it names, was removed by the vacuum
C18_Witness ==
    /\ schema = "legacy"
    /\ "P" \in delCommitted /\ ~IsRow(objects["P"])
    /\ \E t \in Txns :
          /\ IsStore(t) /\ lastOp[t].err = "ForeignKeyViolationError"
          /\ lastOp[t].raised = "TIDConflictError"
          /\ lastOp[t].oid \in txn_deleted[t]

\* every reference of a committed row names a committed object row
Referenced ==
    /\ \A o \in AllOids :
          IsRow(objects[o]) =>
              \A ref \in {objects[o].parent_id, objects[o].of} \ {NULL} :
                  IsRow(objects[ref])
    /\ \A r \in blobs : IsRow(objects[r.zoid])

\* a step that removes object rows removes with them the rows that name
\* them as parent_id or of, and their blob chunks
RemovedWithDependents ==
    \A o \in AllOids :
        (IsRow(objects[o]) /\ ~IsRow(objects'[o])) =>
            /\ \A o2 \in AllOids :
                  (IsRow(objects[o2]) /\ o \in {objects[o2].parent_id,
                                                objects[o2].of}) =>
                      ~IsRow(objects'[o2])
            /\ \A r \in blobs : r.zoid = o => r \notin blobs'

Unstreamed(t) ==
    {q \in inflight[t] : q.op \notin {"items", "read_blob_chunks"}}

\* C20 as stated: every query of an operation other than the streamed
\* cursors items and read_blob_chunks is in flight only while its caller
\* holds the transaction's lock, so no two of them are in flight on one
\* session at once.
C20_LockDiscipline ==
    \A t \in Txns :
        /\ \A q \in Unstreamed(t) : txn_lock[t] = q.caller
        /\ Cardinality(Unstreamed(t)) <= 1

NewerRows(t) == {r \in conflicts[t].committed : r.tid > conflicts[t].tid}

\* C22: a get_conflicts call that has returned gave nothing when the
\* transaction modified no oid; with 1 to 999 modified oids exactly the
\* committed rows of a greater tid whose zoid is a modified oid; with 1,000
\* or more every committed row of a greater tid, modified or not.
C22_Conflicts ==
    \A t \in Txns :
        conflicts[t].called /\ conflicts[t].done =>
            LET n == LenModified(conflicts[t].modified)
            IN /\ n = 0 => conflicts[t].rows = {}
               /\ n >= 1 /\ n <= 999 =>
                     conflicts[t].rows =
                        {r \in NewerRows(t) :
                            r.zoid \in conflicts[t].modified.known}
               /\ n >= 1000 => conflicts[t].rows = NewerRows(t)

\* a call with fewer than 1,000 modified oids has returned a conflict and
\* left out a newer row of an object the transaction did not modify
C22_Witness ==
    \E t \in Txns :
        /\ conflicts[t].called /\ conflicts[t].done
        /\ LenModified(conflicts[t].modified) \in 1 .. 999
        /\ conflicts[t].rows # {}
        /\ conflicts[t].rows # NewerRows(t)

\* the vacuum task is between two oids, or has ended
BetweenOids == vpc \in {"get", "done", "cancelled"}

\* the last vacuum(oid) call failed somewhere, with the errors in E at most
FailedWithin(E) ==
    BetweenOids /\ vlast.failed # {} /\ vlast.errors \subseteq E

\* every oid the worker takes is the one that waited longest
TakesInOrder ==
    [][vpc = "get" /\ vpc' = "vacuum"
          => active' = Head(queue) /\ queue' = Tail(queue)]_vars

\* what the failures leave: the session is handed back, the flag reset, a
\* failure that close() did not pass over is logged, and the task is alive
\* unless finalize has closed the vacuum
Survived ==
    /\ vconn = "unset"
    /\ active = NULL
    /\ vlast.failed # {"close"} \/ ~(\A e \in vlast.errors : CloseSwallows(e))
           => vlast.logged >= 1
    /\ vpc = "done" => closed

C24_FinalizeReturns == closed ~> fpc = "done"

\* the call of t has returned to its caller without raising
ReturnedNormally(t) == startCall[t].out \in {"started", "returned"}

\* C25: whenever start_transaction(txn) has returned normally the backend
\* transaction has been started; a failed start is retried or raised.
C25_StartedOrRaised ==
    \A t \in Txns : ReturnedNormally(t) => startCall[t].out = "started"

\* C26: with the unique (parent_id, id) constraint installed, a delete(txn,
\* oid) that has run on a working session raised no error, whatever other
\* trashed rows wait for the vacuum.
C26_DeleteSucceeds ==
    \A t \in Txns :
        HasConstraint /\ lastOp[t].op = "delete" => lastOp[t].raised = "none"

\* C27: no task waits for the storage lock while it is itself the holder,
\* also when open(), called by restart_connection under the lock, meets an
\* interface error.
C27_NoSelfWait ==
    \A t \in Txns : ~(pc[t] = "lockwait" /\ storage_lock = t)

\* the open() call of t met an interface error and has ended
OpenEnded(t) == lastOp[t].op = "open" /\ "raised" \in DOMAIN lastOp[t]

\* C28: an open() call that did not get its session from the pool ends by
\* raising an error; it never returns without a session.
C28_OpenTotal ==
    \A t \in Txns : OpenEnded(t) => lastOp[t].raised # "none"

\* C29: no write_blob_chunk call ends with an error, also when two calls
\* for the same oid without a row run concurrently, in one transaction or
\* in two.
C29_StubOnce ==
    \A t \in Txns, c \in Callers : wcall[t][c].err = "none"

====
